---- MODULE Spec2Model ----
(***************************************************************************)
(* Model of the scoring and odds engine of the college-planning server:    *)
(* rate-system.js (rateStudent, rateCollege, getAdmissionOdds and the      *)
(* activity-strength call getActivitiesScore).                             *)
(*                                                                         *)
(* JavaScript numbers are modelled as exact rationals n/d plus the value   *)
(* NaN; the decimal literals of the source (0.35, 1.2, 5.5, ...) are the   *)
(* rationals they denote.  Strings are sequences of one-character strings, *)
(* so that parseFloat, parseInt, trim and the /(\d+)/ match are computed.  *)
(***************************************************************************)
EXTENDS Integers, Sequences, FiniteSets, TLC

VARIABLES GPT_API_KEY, rs, rc, ao, savedColleges, sc,
          collegeDataCache, collegeDataCacheTime, now, csvFile, gc,
          accountsCsv, rt, sa, pr, loginsCsv, su

rateVars == <<GPT_API_KEY, rs, rc, ao>>
savedVars == <<savedColleges, sc>>
cacheVars == <<collegeDataCache, collegeDataCacheTime, now, csvFile, gc>>
storeVars == <<accountsCsv, rt, sa, pr>>
loginVars == <<loginsCsv, su>>

\* The state outside rate-system.js
appVars == <<savedVars, cacheVars, storeVars, loginVars>>

vars == <<GPT_API_KEY, rs, rc, ao, appVars>>

(***************************************************************************)
(* Bounds of the model.                                                    *)
(***************************************************************************)
\* getAdmissionOdds is fed every integer from -MaxOver to 100 + MaxOver.
MaxOver == 2
\* An apCourses array holds at most MaxApCourses entries.
MaxApCourses == 2
\* At most MaxCallers rateStudent calls are in flight at a time.
MaxCallers == 2
\* At most MaxSaves saveAccount calls are made.
MaxSaves == 3
\* At most MaxSignups sign-up requests are made.
MaxSignups == 3
\* The clock is followed for MaxMinutes minutes after the server started.
MaxMinutes == 11

(***************************************************************************)
(* The state: GPT_API_KEY is the module's key (empty when none was found), *)
(* rs[c] the rateStudent call of caller c, rc the rateCollege call and ao  *)
(* the getAdmissionOdds call; a call that was not made is idle.            *)
(***************************************************************************)
Callers == 1..MaxCallers

NoStudentCall == [pc |-> "idle"]
NoCollegeCall == [pc |-> "idle"]
NoOddsCall == [pc |-> "idle"]

(***************************************************************************)
(* Integer helpers.                                                        *)
(***************************************************************************)
Abs(x) == IF x < 0 THEN -x ELSE x

RECURSIVE Gcd(_, _)
Gcd(a, b) == IF b = 0 THEN a ELSE Gcd(b, a % b)

Lcm(a, b) == (a \div Gcd(a, b)) * b

(***************************************************************************)
(* JavaScript values.  k is the kind: "undefined", "null", "NaN" (the      *)
(* number NaN), "number" (the finite number n/d, d > 0, in lowest terms),  *)
(* "string" (the characters s), "boolean" (n = 1 for true), "array" (the   *)
(* elements items).                                                        *)
(***************************************************************************)
JsVal(kind, num, den, str) ==
    [k |-> kind, n |-> num, d |-> den, s |-> str, items |-> <<>>]

Undefined == JsVal("undefined", 0, 1, <<>>)
Null == JsVal("null", 0, 1, <<>>)
NaN == JsVal("NaN", 0, 1, <<>>)
Str(chars) == JsVal("string", 0, 1, chars)
Bool(b) == JsVal("boolean", IF b THEN 1 ELSE 0, 1, <<>>)
\* The array of the elements items.
Arr(items) == [JsVal("array", 0, 1, <<>>) EXCEPT !.items = items]

\* The finite number num/den (den # 0), in lowest terms with a positive denominator.
Num(num, den) ==
    LET g == Gcd(Abs(num), Abs(den))
        sgn == IF den < 0 THEN -1 ELSE 1
    IN  JsVal("number", sgn * (num \div g), sgn * (den \div g), <<>>)

IntNum(i) == Num(i, 1)

IsNum(v) == v.k = "number"
IsNaN(v) == v.k = "NaN"

\* typeof v === 'string'
IsString(v) == v.k = "string"

\* Array.isArray(v)
IsArray(v) == v.k = "array"

\* An object with named properties is a record without the field k.
IsObject(v) == "k" \notin DOMAIN v

\* ToBoolean(v): undefined, null, NaN, 0, '' and false are falsy.
Truthy(v) ==
    CASE IsObject(v) -> TRUE
      [] v.k = "undefined" -> FALSE
      [] v.k = "null" -> FALSE
      [] v.k = "NaN" -> FALSE
      [] v.k = "number" -> v.n # 0
      [] v.k = "string" -> Len(v.s) > 0
      [] v.k = "boolean" -> v.n = 1
      [] v.k = "array" -> TRUE
      [] OTHER -> TRUE

\* a || b
Or(a, b) == IF Truthy(a) THEN a ELSE b

(***************************************************************************)
(* Number arithmetic; every operation with a NaN operand gives NaN, every  *)
(* comparison with a NaN operand is false.  Operands are numbers.          *)
(***************************************************************************)
Add(a, b) ==
    IF IsNaN(a) \/ IsNaN(b) THEN NaN
    ELSE LET l == Lcm(a.d, b.d)
         IN  Num(a.n * (l \div a.d) + b.n * (l \div b.d), l)

Neg(a) == IF IsNaN(a) THEN NaN ELSE Num(-a.n, a.d)

Sub(a, b) == Add(a, Neg(b))

Mul(a, b) ==
    IF IsNaN(a) \/ IsNaN(b) THEN NaN
    ELSE LET g1 == Gcd(Abs(a.n), b.d)
             g2 == Gcd(Abs(b.n), a.d)
         IN  Num((a.n \div g1) * (b.n \div g2), (a.d \div g2) * (b.d \div g1))

\* a / b for b a non-zero number or NaN
Div(a, b) ==
    IF IsNaN(a) \/ IsNaN(b) THEN NaN
    ELSE Mul(a, Num(b.d, b.n))

\* a < b
Lt(a, b) ==
    IF IsNaN(a) \/ IsNaN(b) THEN FALSE
    ELSE LET l == Lcm(a.d, b.d)
         IN  a.n * (l \div a.d) < b.n * (l \div b.d)

\* a > b, a <= b, a >= b
Gt(a, b) == Lt(b, a)
Le(a, b) == ~IsNaN(a) /\ ~IsNaN(b) /\ ~Lt(b, a)
Ge(a, b) == Le(b, a)

\* Math.min(a, b), Math.max(a, b), Math.abs(a)
MathMin(a, b) == IF IsNaN(a) \/ IsNaN(b) THEN NaN ELSE IF Lt(b, a) THEN b ELSE a
MathMax(a, b) == IF IsNaN(a) \/ IsNaN(b) THEN NaN ELSE IF Lt(a, b) THEN b ELSE a
MathAbs(a) == IF IsNaN(a) THEN NaN ELSE Num(Abs(a.n), a.d)

\* Math.round(a): the nearest integer, a tie going up (floor(a + 1/2)).
MathRound(a) == IF IsNaN(a) THEN NaN ELSE IntNum((2 * a.n + a.d) \div (2 * a.d))

\* Number.isFinite(v): v is a number and neither NaN nor infinite.
NumberIsFinite(v) == IsNum(v)

(***************************************************************************)
(* Strings.                                                                *)
(***************************************************************************)
Digits == {"0", "1", "2", "3", "4", "5", "6", "7", "8", "9"}
WhiteSpace == {" ", "\n"}

DigitValue(c) ==
    CASE c = "0" -> 0 [] c = "1" -> 1 [] c = "2" -> 2 [] c = "3" -> 3
      [] c = "4" -> 4 [] c = "5" -> 5 [] c = "6" -> 6 [] c = "7" -> 7
      [] c = "8" -> 8 [] c = "9" -> 9

\* s without its first k characters
Drop(s, k) == SubSeq(s, k + 1, Len(s))

\* The number of leading characters of s that lie in the set cs.
RECURSIVE Span(_, _)
Span(s, cs) ==
    IF s = <<>> \/ Head(s) \notin cs THEN 0 ELSE 1 + Span(Tail(s), cs)

\* The value of a sequence of decimal digits (0 for the empty one).
RECURSIVE DigitsValue(_)
DigitsValue(ds) ==
    IF ds = <<>> THEN 0
    ELSE 10 * DigitsValue(SubSeq(ds, 1, Len(ds) - 1)) + DigitValue(ds[Len(ds)])

RECURSIVE Pow10(_)
Pow10(k) == IF k = 0 THEN 1 ELSE 10 * Pow10(k - 1)

\* s.trim()
RECURSIVE TrimEnd(_)
TrimEnd(s) ==
    IF s # <<>> /\ s[Len(s)] \in WhiteSpace THEN TrimEnd(SubSeq(s, 1, Len(s) - 1)) ELSE s

Trim(s) == TrimEnd(Drop(s, Span(s, WhiteSpace)))

\* s without its leading white space
SkipWhiteSpace(s) == Drop(s, Span(s, WhiteSpace))

\* s begins with the sign c
HasSign(s, c) == s # <<>> /\ Head(s) = c

\* The integer that the leading digits of u denote, NaN when u begins with no digit.
ParseDigits(u) ==
    IF Span(u, Digits) = 0 THEN NaN
    ELSE IntNum(DigitsValue(SubSeq(u, 1, Span(u, Digits))))

\* parseInt(str, 10): leading white space, a sign, then decimal digits; NaN without a digit.
ParseInt(str) ==
    IF HasSign(SkipWhiteSpace(str), "-") THEN Neg(ParseDigits(Tail(SkipWhiteSpace(str))))
    ELSE IF HasSign(SkipWhiteSpace(str), "+") THEN ParseDigits(Tail(SkipWhiteSpace(str)))
    ELSE ParseDigits(SkipWhiteSpace(str))

\* The number of digits of the fraction that rest begins with ("." and digits).
FractionLen(rest) ==
    IF rest # <<>> /\ Head(rest) = "." THEN Span(Tail(rest), Digits) ELSE 0

\* The number whole.fraction, where rest is what follows the digits whole and f is
\* the length of its fraction; NaN when there is no digit at all.
DecimalValue(whole, rest, f) ==
    IF whole = <<>> /\ f = 0 THEN NaN
    ELSE Num(DigitsValue(whole) * Pow10(f) + DigitsValue(SubSeq(rest, 2, f + 1)), Pow10(f))

\* The number that u begins with: digits, then a fraction.
ParseDecimal(u) ==
    DecimalValue(SubSeq(u, 1, Span(u, Digits)), Drop(u, Span(u, Digits)),
                 FractionLen(Drop(u, Span(u, Digits))))

\* parseFloat(str): leading white space, a sign, digits, and a fraction; NaN without a digit.
ParseFloat(str) ==
    IF HasSign(SkipWhiteSpace(str), "-") THEN Neg(ParseDecimal(Tail(SkipWhiteSpace(str))))
    ELSE IF HasSign(SkipWhiteSpace(str), "+") THEN ParseDecimal(Tail(SkipWhiteSpace(str)))
    ELSE ParseDecimal(SkipWhiteSpace(str))

\* raw.match(/(\d+)/): the first maximal run of digits of s, <<>> when s has no digit.
RECURSIVE FirstDigitRun(_)
FirstDigitRun(s) ==
    IF s = <<>> THEN <<>>
    ELSE IF Head(s) \in Digits THEN SubSeq(s, 1, Span(s, Digits))
    ELSE FirstDigitRun(Tail(s))

(***************************************************************************)
(* The browser's state (api.js): savedColleges is the list stored under    *)
(* the localStorage key 'savedColleges' (empty while the key is absent),   *)
(* sc the last SavedColleges call and what it returned.                    *)
(***************************************************************************)
NoSavedCall == [op |-> "none"]

SavedIdle == savedColleges = <<>> /\ sc = NoSavedCall

(***************************************************************************)
(* The catalog cache of server.js: collegeDataCache and                    *)
(* collegeDataCacheTime are the module's variables, now is Date.now() in   *)
(* milliseconds, csvFile the catalog file on disk (unreadable, or the rows *)
(* it parses to), gc the last getCollegeData call: when it was made, what  *)
(* it found cached, whether it read the file and what it returned, with    *)
(* the outcome of the load behind the cached list.                         *)
(***************************************************************************)
\* Date.now() when the server starts
ServerStart == 1000

NoCatalogCall == [op |-> "none"]
UnreadableFile == [readable |-> FALSE, rows |-> <<>>]

CacheIdle ==
    /\ collegeDataCache = Null
    /\ collegeDataCacheTime = Null
    /\ now = ServerStart
    /\ csvFile = UnreadableFile
    /\ gc = NoCatalogCall

(***************************************************************************)
(* The accounts store of server.js: accountsCsv is the text of             *)
(* storage/accounts.csv, rt a writeAccounts call followed by readAccounts, *)
(* sa the last saveAccount call: its argument, the accounts it read and    *)
(* what it returned, pr[q] the POST /api/profile request q.                *)
(* A text is a sequence of characters; the name of a column is written as  *)
(* one element of the sequence.                                            *)
(***************************************************************************)
headers ==
    <<"user_id", "name", "grade", "gpa", "weighted", "sat", "act", "psat", "majors",
      "ap_courses", "activities", "interests", "career_goals", "rating", "created_at",
      "updated_at">>

\* headers.join(',')
RECURSIVE JoinHeaders(_)
JoinHeaders(hs) ==
    IF Len(hs) = 0 THEN <<>>
    ELSE IF Len(hs) = 1 THEN <<hs[1]>>
    ELSE <<hs[1], ",">> \o JoinHeaders(Tail(hs))

\* The file the server creates when there is none: the header line
HeaderOnlyCsv == JoinHeaders(headers) \o <<"\n">>

NoRoundTrip == [pc |-> "idle"]
NoSaveCall == [op |-> "none"]

\* Two clients post their profiles.
Requests == {"A", "B"}
NoRequest == [pc |-> "idle"]

StoreIdle ==
    /\ accountsCsv = HeaderOnlyCsv
    /\ rt = NoRoundTrip
    /\ sa = NoSaveCall
    /\ pr = [q \in Requests |-> NoRequest]

(***************************************************************************)
(* The logins store of server.js: loginsCsv is the text of                 *)
(* storage/logins.csv, su the last POST /api/auth/signup request.          *)
(***************************************************************************)
loginHeaders == <<"email", "password_hash", "user_id", "created_at">>
HeaderOnlyLogins == JoinHeaders(loginHeaders) \o <<"\n">>
NoSignup == [op |-> "none"]

LoginsIdle == loginsCsv = HeaderOnlyLogins /\ su = NoSignup

\* Nothing outside rate-system.js has happened.
AppIdle == SavedIdle /\ CacheIdle /\ StoreIdle /\ LoginsIdle

(***************************************************************************)
(* getAdmissionOdds(studentScore, collegeScore)                            *)
(***************************************************************************)
\* typeof x === 'string' ? parseFloat(x) : (x || 0)
ParseScore(x) == IF IsString(x) THEN ParseFloat(x.s) ELSE Or(x, IntNum(0))

\* Math.max(0, Math.min(100, score))
ClampScore(score) == MathMax(IntNum(0), MathMin(IntNum(100), score))

\* delta = studentNorm - collegeNorm
DeltaReversed(studentNorm, collegeNorm) == Sub(collegeNorm, studentNorm)
Delta(studentNorm, collegeNorm) == Sub(studentNorm, collegeNorm)

baseOddsOff == IntNum(45)
baseOdds == IntNum(50)
deltaMultiplier == Num(3, 2)
sigmoidFactor == Num(4, 5)

\* The value of odds after the sigmoid-like curve has overwritten the linear one.
SigmoidOddsKeepsLinear(delta) == Add(baseOdds, Mul(delta, deltaMultiplier))
SigmoidOdds(delta) ==
    LET linear == Add(baseOdds, Mul(delta, deltaMultiplier))
        normalizedDelta == Div(delta, IntNum(50))
        sigmoidDelta ==
            Mul(Div(normalizedDelta,
                    Add(IntNum(1), Mul(MathAbs(normalizedDelta), sigmoidFactor))),
                IntNum(50))
    IN  Add(baseOdds, Mul(sigmoidDelta, deltaMultiplier))

\* Math.max(2, Math.min(98, odds))
ClampOddsNone(odds) == odds
ClampOddsAsCommented(odds) == MathMax(IntNum(5), MathMin(IntNum(98), odds))
ClampOdds(odds) == MathMax(IntNum(2), MathMin(IntNum(98), odds))

\* The locals of one call and the value it returns (odds).
OddsCall(studentScore, collegeScore) ==
    LET student == ParseScore(studentScore)
        college == ParseScore(collegeScore)
        studentNorm == ClampScore(student)
        collegeNorm == ClampScore(college)
        delta == Delta(studentNorm, collegeNorm)
    IN  [student |-> student, college |-> college,
         studentNorm |-> studentNorm, collegeNorm |-> collegeNorm,
         delta |-> delta,
         odds |-> MathRound(ClampOdds(SigmoidOdds(delta)))]

GetAdmissionOdds(studentScore, collegeScore) == OddsCall(studentScore, collegeScore).odds

\* The scores a caller passes: every integer near [0,100], fractions, and non-numbers.
OddsInputs ==
    {IntNum(i) : i \in (0 - MaxOver)..(100 + MaxOver)}
    \cup {Num(145, 2), Num(1, 2), NaN, Undefined, Null,
          Str(<<>>), Str(<<"a", "b", "c">>), Str(<<"7", "5">>),
          Str(<<" ", "4", "2", ".", "5">>), Str(<<"1", "5", "0">>),
          Str(<<"-", "3">>), Str(<<"6", "0", "%">>)}

\* A caller invokes getAdmissionOdds(studentScore, collegeScore).
AoInit ==
    \E a \in OddsInputs, b \in OddsInputs :
        ao = [pc |-> "called", studentScore |-> a, collegeScore |-> b]

\* The call runs to its return statement.
GetAdmissionOddsReturn ==
    /\ ao.pc = "called"
    /\ ao' = [pc |-> "returned", studentScore |-> ao.studentScore,
              collegeScore |-> ao.collegeScore]
             @@ OddsCall(ao.studentScore, ao.collegeScore)
    /\ UNCHANGED <<GPT_API_KEY, rs, rc, appVars>>

InitOdds ==
    /\ AppIdle
    /\ GPT_API_KEY = <<>>
    /\ rs = [c \in Callers |-> NoStudentCall]
    /\ rc = NoCollegeCall
    /\ AoInit

NextOdds == GetAdmissionOddsReturn

SpecOdds == InitOdds /\ [][NextOdds]_vars

(***************************************************************************)
(* getActivitiesScore(activitiesText)                                      *)
(***************************************************************************)
\* The neutral default 5.5
NeutralScore == Num(11, 2)

\* Neither early return is taken: the text is not blank and there is a key, so the
\* request is sent.
NeedsRequestIgnoresKey(activitiesText, key) == Trim(activitiesText) # <<>>
NeedsRequest(activitiesText, key) == Trim(activitiesText) # <<>> /\ key # <<>>

\* What the request comes to.  kind: "fetch_rejects" (fetch throws), "json_rejects"
\* (response.json() throws) or "response"; ok is response.ok; data is "null" (the
\* body is null), "object" (an object without choices) or "choices" (an object whose
\* choices[0].message.content is content).
Response(kind, ok, data, content) ==
    [kind |-> kind, ok |-> ok, data |-> data, content |-> content]

\* The value getActivitiesScore returns once the request has settled with r; an
\* exception thrown inside the try block is caught and gives the neutral default.
ScoreOfResponseNoNaNCheck(r) ==
    IF r.kind # "response" THEN NeutralScore
    ELSE IF r.data = "null" THEN NeutralScore
    ELSE IF ~r.ok THEN NeutralScore
    ELSE LET content == IF r.data = "choices" THEN r.content ELSE Undefined
         IN  IF Truthy(content) /\ ~IsString(content) THEN NeutralScore
             ELSE LET raw == Trim(Or(content, Str(<<>>)).s)
                      match == FirstDigitRun(raw)
                      score == IF match # <<>> THEN ParseInt(match) ELSE NaN
                  IN  MathMin(IntNum(10), MathMax(IntNum(1), score))
ScoreOfResponseNoClamp(r) ==
    IF r.kind # "response" THEN NeutralScore
    ELSE IF r.data = "null" THEN NeutralScore
    ELSE IF ~r.ok THEN NeutralScore
    ELSE LET content == IF r.data = "choices" THEN r.content ELSE Undefined
         IN  IF Truthy(content) /\ ~IsString(content) THEN NeutralScore
             ELSE LET raw == Trim(Or(content, Str(<<>>)).s)
                      match == FirstDigitRun(raw)
                      score == IF match # <<>> THEN ParseInt(match) ELSE NaN
                  IN  IF IsNaN(score) THEN NeutralScore ELSE score
ScoreOfResponse(r) ==
    IF r.kind # "response" THEN NeutralScore
    ELSE IF r.data = "null" THEN NeutralScore
    ELSE IF ~r.ok THEN NeutralScore
    ELSE LET content == IF r.data = "choices" THEN r.content ELSE Undefined
         IN  IF Truthy(content) /\ ~IsString(content) THEN NeutralScore
             ELSE LET raw == Trim(Or(content, Str(<<>>)).s)
                      match == FirstDigitRun(raw)
                      score == IF match # <<>> THEN ParseInt(match) ELSE NaN
                  IN  IF IsNaN(score) THEN NeutralScore
                      ELSE MathMin(IntNum(10), MathMax(IntNum(1), score))

(***************************************************************************)
(* rateStudent(student)                                                    *)
(***************************************************************************)
\* const {gpa, weighted = true, sat, act, apCourses = [], activities = ''} = student || {}
NoStudentFields ==
    [gpa |-> Undefined, weighted |-> Undefined, sat |-> Undefined, act |-> Undefined,
     apCourses |-> Undefined, activities |-> Undefined]

StudentFields(student) ==
    LET f == IF Truthy(student) THEN student ELSE NoStudentFields
    IN  [gpa |-> f.gpa,
         weighted |-> IF f.weighted = Undefined THEN Bool(TRUE) ELSE f.weighted,
         sat |-> f.sat,
         act |-> f.act,
         apCourses |-> IF f.apCourses = Undefined THEN Arr(<<>>) ELSE f.apCourses,
         activities |-> IF f.activities = Undefined THEN Str(<<>>) ELSE f.activities]

\* lines.join('\n')
RECURSIVE JoinLines(_)
JoinLines(lines) ==
    IF lines = <<>> THEN <<>>
    ELSE IF Len(lines) = 1 THEN lines[1]
    ELSE lines[1] \o <<"\n">> \o JoinLines(Tail(lines))

\* One activity as a line: its hours, when given, then " hrs - " and its description
\* (the dash stands for the source's em dash).
ActivityLine(a) ==
    (IF Truthy(a.hours) THEN a.hours.s \o <<" ", "h", "r", "s", " ", "-", " ">> ELSE <<>>)
        \o a.description.s

\* The activities text handed to getActivitiesScore.
ActivitiesText(activities) ==
    IF IsArray(activities)
    THEN LET described == SelectSeq(activities.items, LAMBDA a : Truthy(a) /\ Truthy(a.description))
         IN  JoinLines([i \in 1..Len(described) |-> ActivityLine(described[i])])
    ELSE IF IsString(activities) THEN activities.s
    ELSE <<>>

\* GPA over gpaMax (5.0 weighted, 4.0 unweighted), capped at 1.
GpaNorm(gpa, weighted) ==
    LET gpaNum == IF IsString(gpa) THEN ParseFloat(gpa.s) ELSE Or(gpa, IntNum(0))
        gpaMax == IF Truthy(weighted) THEN IntNum(5) ELSE IntNum(4)
    IN  IF Gt(gpaNum, IntNum(0)) THEN MathMin(IntNum(1), Div(gpaNum, gpaMax)) ELSE IntNum(0)

SatNum(sat) == IF IsString(sat) THEN ParseInt(sat.s) ELSE Or(sat, IntNum(0))
ActNum(act) == IF IsString(act) THEN ParseInt(act.s) ELSE Or(act, IntNum(0))

\* No test score was provided.
IsUntaken(sat, act) ==
    /\ (SatNum(sat) = IntNum(0) \/ sat = Str(<<>>) \/ sat = Null \/ sat = Undefined)
    /\ (ActNum(act) = IntNum(0) \/ act = Str(<<>>) \/ act = Null \/ act = Undefined)

StudentSatNorm(sat, act) ==
    IF IsUntaken(sat, act)
    THEN MathMin(IntNum(1), Div(IntNum(800 - 400), IntNum(1600 - 400)))
    ELSE IF Gt(SatNum(sat), IntNum(0))
    THEN MathMin(IntNum(1), Div(Sub(SatNum(sat), IntNum(400)), IntNum(1600 - 400)))
    ELSE IntNum(0)

StudentActNorm(sat, act) ==
    IF ~IsUntaken(sat, act) /\ Gt(ActNum(act), IntNum(0))
    THEN MathMin(IntNum(1), Div(Sub(ActNum(act), IntNum(1)), IntNum(36 - 1)))
    ELSE IntNum(0)

StudentTestNorm(sat, act) == MathMax(StudentSatNorm(sat, act), StudentActNorm(sat, act))

\* (apCourses || []).filter throws a TypeError when the value has no filter method.
ApFilterThrows(apCourses) == ~IsArray(Or(apCourses, Arr(<<>>)))

\* The number one AP record adds to the total.
ApScore(c) ==
    LET s == IF IsString(c.score) THEN ParseFloat(c.score.s) ELSE Or(c.score, IntNum(0))
    IN  IF NumberIsFinite(s) THEN s ELSE IntNum(0)

RECURSIVE ApTotal(_)
ApTotal(validAps) ==
    IF validAps = <<>> THEN IntNum(0)
    ELSE Add(ApTotal(SubSeq(validAps, 1, Len(validAps) - 1)), ApScore(validAps[Len(validAps)]))

\* AP rigor: half the count over 10, half the average score over 5, each capped at 1.
ApNormCountsUnnamed(apCourses) ==
    LET validAps == SelectSeq(Or(apCourses, Arr(<<>>)).items, LAMBDA c : Truthy(c))
        apCount == Len(validAps)
        apAvgScore == IF apCount > 0 THEN Div(ApTotal(validAps), IntNum(apCount)) ELSE IntNum(0)
        apCountNorm == MathMin(IntNum(1), Div(IntNum(apCount), IntNum(10)))
        apScoreNorm == MathMin(IntNum(1), Div(apAvgScore, IntNum(5)))
    IN  IF apCount > 0
        THEN Add(Mul(Num(1, 2), apCountNorm), Mul(Num(1, 2), apScoreNorm))
        ELSE IntNum(0)
ApNorm(apCourses) ==
    LET validAps == SelectSeq(Or(apCourses, Arr(<<>>)).items,
                              LAMBDA c : Truthy(c) /\ Truthy(c.course))
        apCount == Len(validAps)
        apAvgScore == IF apCount > 0 THEN Div(ApTotal(validAps), IntNum(apCount)) ELSE IntNum(0)
        apCountNorm == MathMin(IntNum(1), Div(IntNum(apCount), IntNum(10)))
        apScoreNorm == MathMin(IntNum(1), Div(apAvgScore, IntNum(5)))
    IN  IF apCount > 0
        THEN Add(Mul(Num(1, 2), apCountNorm), Mul(Num(1, 2), apScoreNorm))
        ELSE IntNum(0)

\* const WEIGHTS = {...} of rateStudent
STUDENT_WEIGHTS_GpaTestsSwapped ==
    [gpa |-> Num(30, 100), tests |-> Num(35, 100), ap |-> Num(15, 100),
     activities |-> Num(20, 100)]
STUDENT_WEIGHTS ==
    [gpa |-> Num(35, 100), tests |-> Num(30, 100), ap |-> Num(15, 100),
     activities |-> Num(20, 100)]

\* The weighted sum of the four dimensions.
StudentComposite(gpaNorm, testNorm, apNorm, activitiesNorm) ==
    Add(Add(Add(Mul(STUDENT_WEIGHTS.gpa, gpaNorm),
                Mul(STUDENT_WEIGHTS.tests, testNorm)),
            Mul(STUDENT_WEIGHTS.ap, apNorm)),
        Mul(STUDENT_WEIGHTS.activities, activitiesNorm))

\* The records the callers pass.
Gpas == {Undefined, Str(<<"3", ".", "7">>), IntNum(6), IntNum(-1)}
Weighteds == {Undefined, Bool(FALSE)}
Sats == {Undefined, Str(<<>>), Str(<<"1", "6", "0", "0">>), IntNum(200)}
Acts == {Undefined, IntNum(0), IntNum(36), Num(1, 2)}

ApEntries ==
    {Null,
     [course |-> Str(<<"C", "a", "l", "c">>), score |-> IntNum(5)],
     [course |-> Str(<<>>), score |-> IntNum(4)],
     [course |-> Str(<<"B", "i", "o">>), score |-> Str(<<"n", "/", "a">>)],
     [course |-> Str(<<"C", "h", "e", "m">>), score |-> IntNum(-20)]}

ApCourseValues ==
    {Undefined, Null, Str(<<"C", "a", "l", "c">>)}
    \cup {Arr(items) : items \in UNION {[1..n -> ApEntries] : n \in 0..MaxApCourses}}

ActivitiesValues ==
    {Undefined, Null, Str(<<" ", "\n">>), Str(<<"C", "h", "e", "s", "s">>),
     Arr(<<Null, [hours |-> Str(<<"3">>), description |-> Str(<<>>)]>>),
     Arr(<<[hours |-> Str(<<"5">>), description |-> Str(<<"B", "a", "n", "d">>)],
           [hours |-> Undefined, description |-> Str(<<"C", "h", "e", "s", "s">>)]>>)}

StudentInputs ==
    {Null} \cup
    [gpa : Gpas, weighted : Weighteds, sat : Sats, act : Acts,
     apCourses : ApCourseValues, activities : ActivitiesValues]

\* What the request to the completions API may come to.
Responses ==
    {Response("fetch_rejects", FALSE, "null", Undefined),
     Response("json_rejects", TRUE, "null", Undefined),
     Response("response", FALSE, "object", Undefined),
     Response("response", TRUE, "null", Undefined),
     Response("response", TRUE, "object", Undefined),
     Response("response", TRUE, "choices", Str(<<"t", "e", "n">>)),
     Response("response", TRUE, "choices", Str(<<"0">>)),
     Response("response", TRUE, "choices", Str(<<" ", "8", "/", "1", "0", "\n">>)),
     Response("response", TRUE, "choices", Str(<<"1", "5">>))}

\* Caller 1 invokes rateStudent(student).
RsInit ==
    \E s \in StudentInputs :
        rs = [c \in Callers |-> IF c = 1 THEN [pc |-> "called", student |-> s]
                                ELSE NoStudentCall]

\* What each step of the call of caller c waits for: its invocation; the promise of a
\* getActivitiesScore that returned without a request; the promise of its own fetch.
CanStart(c) == rs[c].pc = "called"
CanResume(c) == rs[c].pc = "awaiting" /\ rs[c].requests = 0
CanSettleSerialized(c) ==
    /\ rs[c].pc = "awaiting"
    /\ rs[c].requests = 1
    /\ \A d \in Callers \ {c} : rs[d].pc # "awaiting"
CanSettle(c) == rs[c].pc = "awaiting" /\ rs[c].requests = 1

\* The call runs up to its first suspension: it computes the activities text and the
\* academic dimensions, throws when apCourses cannot be filtered, and otherwise calls
\* getActivitiesScore, which returns at once or sends its request.
RateStudentStart(c) ==
    /\ CanStart(c)
    /\ LET f == StudentFields(rs[c].student)
           activitiesText == ActivitiesText(f.activities)
       IN  rs' = [rs EXCEPT ![c] =
                    IF ApFilterThrows(f.apCourses)
                    THEN [pc |-> "rejected", student |-> rs[c].student,
                          error |-> "TypeError", requests |-> 0]
                    ELSE [pc |-> "awaiting", student |-> rs[c].student,
                          activitiesText |-> activitiesText,
                          gpaNorm |-> GpaNorm(f.gpa, f.weighted),
                          satNorm |-> StudentSatNorm(f.sat, f.act),
                          actNorm |-> StudentActNorm(f.sat, f.act),
                          testNorm |-> StudentTestNorm(f.sat, f.act),
                          apNorm |-> ApNorm(f.apCourses),
                          requests |-> IF NeedsRequest(activitiesText, GPT_API_KEY)
                                       THEN 1 ELSE 0]]
    /\ UNCHANGED <<GPT_API_KEY, rc, ao, appVars>>

\* The rest of the call, once getActivitiesScore has given activitiesScore10.
RateStudentFinish(call, response, activitiesScore10) ==
    LET activitiesNorm == Div(activitiesScore10, IntNum(10))
        composite == StudentComposite(call.gpaNorm, call.testNorm, call.apNorm, activitiesNorm)
    IN  [call EXCEPT !.pc = "resolved"]
        @@ [response |-> response, activitiesScore10 |-> activitiesScore10,
            activitiesNorm |-> activitiesNorm, composite |-> composite,
            score |-> MathRound(Mul(composite, IntNum(100)))]

NoResponse == Response("none", FALSE, "null", Undefined)

\* getActivitiesScore returned the neutral default without a request; the call resumes.
RateStudentResume(c) ==
    /\ CanResume(c)
    /\ rs' = [rs EXCEPT ![c] = RateStudentFinish(rs[c], NoResponse, NeutralScore)]
    /\ UNCHANGED <<GPT_API_KEY, rc, ao, appVars>>

\* The request of getActivitiesScore settles with r; the call resumes.
RequestSettlesRetrying(c) ==
    /\ CanSettle(c)
    /\ \E r \in Responses :
           rs' = [rs EXCEPT ![c] =
                    IF r.kind # "response" \/ ~r.ok
                    THEN [rs[c] EXCEPT !.requests = @ + 1]
                    ELSE RateStudentFinish(rs[c], r, ScoreOfResponse(r))]
    /\ UNCHANGED <<GPT_API_KEY, rc, ao, appVars>>
RequestSettles(c) ==
    /\ CanSettle(c)
    /\ \E r \in Responses :
           rs' = [rs EXCEPT ![c] = RateStudentFinish(rs[c], r, ScoreOfResponse(r))]
    /\ UNCHANGED <<GPT_API_KEY, rc, ao, appVars>>

\* The module is loaded with or without a key.
ApiKeys == {<<>>, <<"s", "k">>}

InitStudent ==
    /\ AppIdle
    /\ GPT_API_KEY \in ApiKeys
    /\ rc = NoCollegeCall
    /\ ao = NoOddsCall
    /\ RsInit

NextStudent ==
    \E c \in Callers : RateStudentStart(c) \/ RateStudentResume(c) \/ RequestSettles(c)

SpecStudent == InitStudent /\ [][NextStudent]_vars

(***************************************************************************)
(* Concurrent rateStudent calls: every caller has a call in flight.        *)
(***************************************************************************)
ConcurrentStudents ==
    {Null,
     [NoStudentFields EXCEPT !.apCourses = Str(<<"C", "a", "l", "c">>)],
     [NoStudentFields EXCEPT !.gpa = Str(<<"3", ".", "7">>),
                             !.sat = Str(<<"1", "6", "0", "0">>),
                             !.activities = Str(<<"C", "h", "e", "s", "s">>)],
     [NoStudentFields EXCEPT !.gpa = IntNum(6),
                             !.weighted = Bool(FALSE),
                             !.act = IntNum(36),
                             !.apCourses =
                                 Arr(<<[course |-> Str(<<"C", "a", "l", "c">>),
                                        score |-> IntNum(5)]>>),
                             !.activities =
                                 Arr(<<[hours |-> Str(<<"5">>),
                                        description |-> Str(<<"B", "a", "n", "d">>)]>>)]}

InitConcurrent ==
    /\ AppIdle
    /\ GPT_API_KEY \in ApiKeys
    /\ rc = NoCollegeCall
    /\ ao = NoOddsCall
    /\ rs \in [Callers -> {[pc |-> "called", student |-> s] : s \in ConcurrentStudents}]

NextConcurrent ==
    \E c \in Callers : RateStudentStart(c) \/ RateStudentResume(c) \/ RequestSettles(c)

SpecConcurrent == InitConcurrent /\ [][NextConcurrent]_vars

(***************************************************************************)
(* rateCollege(college)                                                    *)
(***************************************************************************)
\* const parseNum = (val) => ...: null for null, undefined, '' and a non-finite number.
parseNum(val) ==
    IF val = Null \/ val = Undefined \/ val = Str(<<>>) THEN Null
    ELSE LET num == IF IsString(val) THEN ParseFloat(val.s) ELSE val
         IN  IF NumberIsFinite(num) THEN num ELSE Null

\* Acceptance rate, inverted; schools below 20% are boosted by 1.2, capped at 1.
AcceptanceNormBoostUncapped(acceptance_rate) ==
    LET acceptanceRate == parseNum(acceptance_rate)
    IN  IF acceptanceRate # Null /\ Ge(acceptanceRate, IntNum(0)) /\ Le(acceptanceRate, IntNum(1))
        THEN IF Lt(acceptanceRate, Num(1, 5))
             THEN Mul(Sub(IntNum(1), acceptanceRate), Num(6, 5))
             ELSE Sub(IntNum(1), acceptanceRate)
        ELSE IntNum(0)
AcceptanceNormNoBoost(acceptance_rate) ==
    LET acceptanceRate == parseNum(acceptance_rate)
    IN  IF acceptanceRate # Null /\ Ge(acceptanceRate, IntNum(0)) /\ Le(acceptanceRate, IntNum(1))
        THEN Sub(IntNum(1), acceptanceRate)
        ELSE IntNum(0)
AcceptanceNorm(acceptance_rate) ==
    LET acceptanceRate == parseNum(acceptance_rate)
    IN  IF acceptanceRate # Null /\ Ge(acceptanceRate, IntNum(0)) /\ Le(acceptanceRate, IntNum(1))
        THEN IF Lt(acceptanceRate, Num(1, 5))
             THEN MathMin(IntNum(1), Mul(Sub(IntNum(1), acceptanceRate), Num(6, 5)))
             ELSE Sub(IntNum(1), acceptanceRate)
        ELSE IntNum(0)

\* SAT midpoint over 400..1600, 0 outside of it.
CollegeSatNormClamped(sat_50th_percentile) ==
    LET satScore == parseNum(sat_50th_percentile)
    IN  IF satScore # Null
        THEN MathMin(IntNum(1),
                     MathMax(IntNum(0), Div(Sub(satScore, IntNum(400)), IntNum(1600 - 400))))
        ELSE IntNum(0)
CollegeSatNorm(sat_50th_percentile) ==
    LET satScore == parseNum(sat_50th_percentile)
    IN  IF satScore # Null /\ Ge(satScore, IntNum(400)) /\ Le(satScore, IntNum(1600))
        THEN Div(Sub(satScore, IntNum(400)), IntNum(1600 - 400))
        ELSE IntNum(0)

\* ACT midpoint over 1..36, 0 outside of it.
CollegeActNormClamped(act_50th_percentile) ==
    LET actScore == parseNum(act_50th_percentile)
    IN  IF actScore # Null
        THEN MathMin(IntNum(1),
                     MathMax(IntNum(0), Div(Sub(actScore, IntNum(1)), IntNum(36 - 1))))
        ELSE IntNum(0)
CollegeActNorm(act_50th_percentile) ==
    LET actScore == parseNum(act_50th_percentile)
    IN  IF actScore # Null /\ Ge(actScore, IntNum(1)) /\ Le(actScore, IntNum(36))
        THEN Div(Sub(actScore, IntNum(1)), IntNum(36 - 1))
        ELSE IntNum(0)

\* The higher of the two normalized midpoints.
CollegeTestNorm(sat_50th_percentile, act_50th_percentile) ==
    MathMax(CollegeSatNorm(sat_50th_percentile), CollegeActNorm(act_50th_percentile))

\* Graduation rate: itself when in [0,1].
GraduationNorm(graduation_rate) ==
    LET gradRate == parseNum(graduation_rate)
    IN  IF gradRate # Null /\ Ge(gradRate, IntNum(0)) /\ Le(gradRate, IntNum(1))
        THEN gradRate ELSE IntNum(0)

\* Retention rate: itself when in [0,1].
RetentionNorm(retention_rate) ==
    LET retRate == parseNum(retention_rate)
    IN  IF retRate # Null /\ Ge(retRate, IntNum(0)) /\ Le(retRate, IntNum(1))
        THEN retRate ELSE IntNum(0)

\* Median earnings over $30k..$150k, clamped to [0,1].
EarningsNorm(median_earnings_10_years) ==
    LET earnings == parseNum(median_earnings_10_years)
        minEarnings == IntNum(30000)
        maxEarnings == IntNum(150000)
    IN  IF earnings # Null /\ Gt(earnings, IntNum(0))
        THEN MathMin(IntNum(1),
                     MathMax(IntNum(0),
                             Div(Sub(earnings, minEarnings), Sub(maxEarnings, minEarnings))))
        ELSE IntNum(0)

\* Enrollment: 5000..30000 peaks at 15000, above 30000 is 0.7, below 5000 at most 0.6.
EnrollmentNormOpenBounds(enrollment) ==
    LET enroll == parseNum(enrollment)
    IN  IF enroll # Null /\ Gt(enroll, IntNum(0))
        THEN IF Gt(enroll, IntNum(5000)) /\ Lt(enroll, IntNum(30000))
             THEN Add(Num(4, 5),
                      Mul(Num(1, 5),
                          Sub(IntNum(1),
                              Div(MathAbs(Sub(enroll, IntNum(15000))), IntNum(15000)))))
             ELSE IF Gt(enroll, IntNum(30000)) THEN Num(7, 10)
             ELSE MathMin(Num(3, 5), Div(enroll, IntNum(5000)))
        ELSE IntNum(0)
EnrollmentNorm(enrollment) ==
    LET enroll == parseNum(enrollment)
    IN  IF enroll # Null /\ Gt(enroll, IntNum(0))
        THEN IF Ge(enroll, IntNum(5000)) /\ Le(enroll, IntNum(30000))
             THEN Add(Num(4, 5),
                      Mul(Num(1, 5),
                          Sub(IntNum(1),
                              Div(MathAbs(Sub(enroll, IntNum(15000))), IntNum(15000)))))
             ELSE IF Gt(enroll, IntNum(30000)) THEN Num(7, 10)
             ELSE MathMin(Num(3, 5), Div(enroll, IntNum(5000)))
        ELSE IntNum(0)

\* Student-faculty ratio: 5:1 is 1.0, 25:1 is 0.0, clamped to [0,1].
RatioNorm(student_faculty_ratio) ==
    LET ratio == parseNum(student_faculty_ratio)
    IN  IF ratio # Null /\ Gt(ratio, IntNum(0))
        THEN MathMax(IntNum(0),
                     MathMin(IntNum(1),
                             Sub(IntNum(1), Div(Sub(ratio, IntNum(5)), IntNum(20)))))
        ELSE IntNum(0)

\* const WEIGHTS = {...} of rateCollege
COLLEGE_WEIGHTS ==
    [selectivity |-> Num(30, 100), testScores |-> Num(25, 100), graduation |-> Num(15, 100),
     retention |-> Num(10, 100), earnings |-> Num(10, 100), enrollment |-> Num(5, 100),
     facultyRatio |-> Num(5, 100)]

\* const {...} = college || {}: the fields of a record, all undefined for null.
NoCollegeFields ==
    [acceptance_rate |-> Undefined, sat_50th_percentile |-> Undefined,
     act_50th_percentile |-> Undefined, graduation_rate |-> Undefined,
     retention_rate |-> Undefined, median_earnings_10_years |-> Undefined,
     enrollment |-> Undefined, student_faculty_ratio |-> Undefined]

CollegeFields(college) == IF college = Null THEN NoCollegeFields ELSE college

\* The locals of one call and the value it returns (score).
RateCollegeCall(college) ==
    LET c == CollegeFields(college)
        acceptanceNorm == AcceptanceNorm(c.acceptance_rate)
        satNorm == CollegeSatNorm(c.sat_50th_percentile)
        actNorm == CollegeActNorm(c.act_50th_percentile)
        testNorm == CollegeTestNorm(c.sat_50th_percentile, c.act_50th_percentile)
        graduationNorm == GraduationNorm(c.graduation_rate)
        retentionNorm == RetentionNorm(c.retention_rate)
        earningsNorm == EarningsNorm(c.median_earnings_10_years)
        enrollmentNorm == EnrollmentNorm(c.enrollment)
        ratioNorm == RatioNorm(c.student_faculty_ratio)
        composite ==
            Add(Add(Add(Add(Add(Add(Mul(COLLEGE_WEIGHTS.selectivity, acceptanceNorm),
                                    Mul(COLLEGE_WEIGHTS.testScores, testNorm)),
                                Mul(COLLEGE_WEIGHTS.graduation, graduationNorm)),
                            Mul(COLLEGE_WEIGHTS.retention, retentionNorm)),
                        Mul(COLLEGE_WEIGHTS.earnings, earningsNorm)),
                    Mul(COLLEGE_WEIGHTS.enrollment, enrollmentNorm)),
                Mul(COLLEGE_WEIGHTS.facultyRatio, ratioNorm))
    IN  [acceptanceNorm |-> acceptanceNorm, satNorm |-> satNorm, actNorm |-> actNorm,
         testNorm |-> testNorm,
         graduationNorm |-> graduationNorm, retentionNorm |-> retentionNorm,
         earningsNorm |-> earningsNorm, enrollmentNorm |-> enrollmentNorm,
         ratioNorm |-> ratioNorm, composite |-> composite,
         score |-> MathRound(Mul(composite, IntNum(100)))]

RateCollege(college) == RateCollegeCall(college).score

\* The college records a caller passes: numbers and the strings of the catalog file,
\* present or absent, inside and outside their domains.
AcceptanceRates == {Undefined, IntNum(0), Num(1, 20), Num(9, 50), Num(1, 5), Str(<<"0", ".", "5">>), Num(3, 2)}
SatMidpoints == {Undefined, IntNum(1600), Str(<<"1", "0", "0", "0">>), IntNum(399)}
ActMidpoints == {Str(<<>>), IntNum(18), IntNum(40)}
GraduationRates == {Undefined, IntNum(1), Num(3, 5), Num(-1, 10)}
RetentionRates == {Null, Str(<<"1">>), Num(11, 10)}
EarningsValues == {Undefined, IntNum(20000), IntNum(90000), IntNum(200000)}
Enrollments == {Undefined, IntNum(0), IntNum(2000), IntNum(4999), IntNum(5000), IntNum(15000),
                IntNum(30000), IntNum(30001)}
FacultyRatios == {Undefined, IntNum(2), IntNum(15), IntNum(30)}

CollegeInputs ==
    {Null} \cup
    [acceptance_rate : AcceptanceRates, sat_50th_percentile : SatMidpoints,
     act_50th_percentile : ActMidpoints, graduation_rate : GraduationRates,
     retention_rate : RetentionRates, median_earnings_10_years : EarningsValues,
     enrollment : Enrollments, student_faculty_ratio : FacultyRatios]

\* A caller invokes rateCollege(college).
RcInit == \E c \in CollegeInputs : rc = [pc |-> "called", college |-> c]

\* The call runs to its return statement.
RateCollegeReturn ==
    /\ rc.pc = "called"
    /\ rc' = [pc |-> "returned", college |-> rc.college] @@ RateCollegeCall(rc.college)
    /\ UNCHANGED <<GPT_API_KEY, rs, ao, appVars>>

InitCollege ==
    /\ AppIdle
    /\ GPT_API_KEY = <<>>
    /\ rs = [c \in Callers |-> NoStudentCall]
    /\ ao = NoOddsCall
    /\ RcInit

NextCollege == RateCollegeReturn

SpecCollege == InitCollege /\ [][NextCollege]_vars

(***************************************************************************)
(* rateStudent and rateCollege on attributes at and beyond the bounds of   *)
(* their documented domains.                                               *)
(***************************************************************************)
\* Students whose GPA, SAT and ACT lie below, at and above the bounds of 0..gpaMax,
\* 400..1600 and 1..36.
DomainStudents ==
    [gpa : {IntNum(-1), IntNum(4), IntNum(5), IntNum(6)},
     weighted : {Undefined, Bool(FALSE)},
     sat : {Undefined, IntNum(300), IntNum(1600), Str(<<"1", "7", "0", "0">>)},
     act : {Undefined, Num(1, 2), IntNum(36), IntNum(40)},
     apCourses : {Undefined},
     activities : {Str(<<"C", "h", "e", "s", "s">>)}]

\* For each attribute of a college with a documented domain, values below, at and
\* above its bounds.
DomainValues ==
    [acceptance_rate |-> {Num(-1, 10), IntNum(0), IntNum(1), Num(3, 2)},
     sat_50th_percentile |-> {IntNum(399), IntNum(400), IntNum(1600), IntNum(1601)},
     act_50th_percentile |-> {IntNum(0), IntNum(1), IntNum(36), Str(<<"3", "7">>)},
     graduation_rate |-> {Num(-1, 10), IntNum(0), IntNum(1), Num(11, 10)},
     retention_rate |-> {Num(-1, 10), IntNum(0), IntNum(1), Num(11, 10)},
     median_earnings_10_years |-> {IntNum(-5), IntNum(20000), IntNum(30000), IntNum(150000),
                                   IntNum(200000)},
     student_faculty_ratio |-> {IntNum(-1), IntNum(2), IntNum(5), IntNum(25), IntNum(30)}]

\* Colleges with one attribute given, the others absent.
DomainColleges ==
    UNION {{[NoCollegeFields EXCEPT ![f] = v] : v \in DomainValues[f]} : f \in DOMAIN DomainValues}

\* One caller invokes rateStudent and another rateCollege.
InitDomains ==
    /\ AppIdle
    /\ GPT_API_KEY \in ApiKeys
    /\ ao = NoOddsCall
    /\ \E s \in DomainStudents :
           rs = [c \in Callers |-> IF c = 1 THEN [pc |-> "called", student |-> s]
                                   ELSE NoStudentCall]
    /\ \E c \in DomainColleges : rc = [pc |-> "called", college |-> c]

NextDomains == NextStudent \/ NextCollege

SpecDomains == InitDomains /\ [][NextDomains]_vars

(***************************************************************************)
(* SavedColleges (api.js): the list of saved colleges in localStorage.     *)
(* Storage.get and Storage.set pass the list through JSON, which keeps the *)
(* entries, their order and the number or string type of every id.         *)
(***************************************************************************)
DigitChars == <<"0", "1", "2", "3", "4", "5", "6", "7", "8", "9">>

\* The decimal digits of a natural number
RECURSIVE NatDigits(_)
NatDigits(n) == IF n < 10 THEN <<DigitChars[n + 1]>>
                ELSE NatDigits(n \div 10) \o <<DigitChars[(n % 10) + 1]>>

\* String(id) for a string or a natural number
StringOf(id) == IF IsString(id) THEN id.s ELSE NatDigits(id.n)

\* c.id === college.id
StrictlyEqual(a, b) == a = b

\* The position of the first entry found by colleges.find(c => c.id === id), 0 if none
FindSaved(colleges, id) ==
    IF \E i \in 1..Len(colleges) : StrictlyEqual(colleges[i].id, id)
    THEN CHOOSE i \in 1..Len(colleges) :
             /\ StrictlyEqual(colleges[i].id, id)
             /\ \A j \in 1..(i - 1) : ~StrictlyEqual(colleges[j].id, id)
    ELSE 0

\* SavedColleges.isSaved(collegeId)
IsSaved(colleges, collegeId) ==
    \E i \in 1..Len(colleges) : StringOf(colleges[i].id) = StringOf(collegeId)

\* The colleges the pages offer, and the ids the pages ask about.
College(id, name) == [id |-> id, name |-> Str(name)]
OfferedColleges ==
    {College(IntNum(1), <<"M", "I", "T">>), College(IntNum(1), <<"C", "I", "T">>),
     College(Str(<<"1">>), <<"M", "I", "T">>), College(IntNum(2), <<"U", "C", "B">>),
     College(IntNum(3), <<"A", "S", "U">>), College(IntNum(4), <<"P", "S", "U">>),
     College(IntNum(5), <<"U", "M">>), College(IntNum(16), <<"U", "T">>)}
OfferedIds == {c.id : c \in OfferedColleges} \cup {Str(<<"1", "6">>), IntNum(7)}

\* SavedColleges.add(college)
SavedCollegesAddLimitExclusive ==
    \E college \in OfferedColleges :
        LET colleges == savedColleges
            call == [op |-> "add", id |-> college.id, before |-> colleges]
        IN  /\ IF FindSaved(colleges, college.id) # 0
               THEN /\ sc' = call @@ [result |-> TRUE]
                    /\ UNCHANGED savedColleges
               ELSE IF Len(colleges) > 5
               THEN /\ sc' = call @@ [result |-> FALSE]
                    /\ UNCHANGED savedColleges
               ELSE /\ savedColleges' = Append(colleges, college)
                    /\ sc' = call @@ [result |-> TRUE]
            /\ UNCHANGED <<rateVars, loginVars, cacheVars, storeVars>>
SavedCollegesAdd ==
    \E college \in OfferedColleges :
        LET colleges == savedColleges
            call == [op |-> "add", id |-> college.id, before |-> colleges]
        IN  /\ IF FindSaved(colleges, college.id) # 0
               THEN /\ sc' = call @@ [result |-> TRUE]
                    /\ UNCHANGED savedColleges
               ELSE IF Len(colleges) >= 5
               THEN /\ sc' = call @@ [result |-> FALSE]
                    /\ UNCHANGED savedColleges
               ELSE /\ savedColleges' = Append(colleges, college)
                    /\ sc' = call @@ [result |-> TRUE]
            /\ UNCHANGED <<rateVars, loginVars, cacheVars, storeVars>>

\* SavedColleges.remove(collegeId)
SavedCollegesRemove ==
    \E collegeId \in OfferedIds :
        LET idStr == StringOf(collegeId)
        IN  /\ savedColleges' = SelectSeq(savedColleges, LAMBDA c : StringOf(c.id) # idStr)
            /\ sc' = [op |-> "remove", id |-> collegeId, before |-> savedColleges]
            /\ UNCHANGED <<rateVars, loginVars, cacheVars, storeVars>>

RateIdle ==
    /\ GPT_API_KEY = <<>>
    /\ rs = [c \in Callers |-> NoStudentCall]
    /\ rc = NoCollegeCall
    /\ ao = NoOddsCall

InitSaved == RateIdle /\ SavedIdle /\ CacheIdle /\ StoreIdle /\ LoginsIdle

NextSaved == SavedCollegesAdd \/ SavedCollegesRemove

SpecSaved == InitSaved /\ [][NextSaved]_vars

(***************************************************************************)
(* getCollegeData (server.js): the catalog rows, cached for 5 minutes.     *)
(***************************************************************************)
CACHE_DURATION == 5 * 60 * 1000

\* The catalog file: unreadable (readFileSync throws), or the rows parseCSV makes of it.
CatalogRow(name) == [name |-> Str(name)]
CatalogFiles ==
    {UnreadableFile,
     [readable |-> TRUE, rows |-> <<>>],
     [readable |-> TRUE, rows |-> <<CatalogRow(<<"M", "I", "T">>)>>],
     [readable |-> TRUE, rows |-> <<CatalogRow(<<"M", "I", "T">>), CatalogRow(<<"U", "M">>)>>]}

\* The instants at which the clock is read: every whole minute after the start, and
\* the millisecond after it.
Instants == {ServerStart + m * 60000 + e : m \in 0..MaxMinutes, e \in {0, 1}}

\* loadCollegeData(): the rows of the file, [] when reading it throws
LoadCollegeData == IF csvFile.readable THEN Arr(csvFile.rows) ELSE Arr(<<>>)

\* The condition under which getCollegeData loads
CacheIsStaleOrEmpty(cache, cacheTime, t) ==
    ~Truthy(cache) \/ ~Truthy(cacheTime) \/ cache.items = <<>>
        \/ (t - cacheTime.n) > CACHE_DURATION
CacheIsStale(cache, cacheTime, t) ==
    ~Truthy(cache) \/ ~Truthy(cacheTime) \/ (t - cacheTime.n) > CACHE_DURATION

\* getCollegeData()
GetCollegeData ==
    LET call == [op |-> "getCollegeData", at |-> now, cached |-> collegeDataCache,
                 cachedAt |-> collegeDataCacheTime]
    IN  /\ IF CacheIsStale(collegeDataCache, collegeDataCacheTime, now)
           THEN /\ collegeDataCache' = LoadCollegeData
                /\ collegeDataCacheTime' = IntNum(now)
                /\ gc' = call @@ [read |-> TRUE, loadFailed |-> ~csvFile.readable,
                                  result |-> LoadCollegeData]
           ELSE /\ UNCHANGED <<collegeDataCache, collegeDataCacheTime>>
                /\ gc' = call @@ [read |-> FALSE, loadFailed |-> gc.loadFailed,
                                  result |-> collegeDataCache]
        /\ UNCHANGED <<rateVars, loginVars, savedVars, storeVars, now, csvFile>>

\* Time passes.
ClockAdvances ==
    /\ \E t \in Instants : t > now /\ now' = t
    /\ UNCHANGED <<rateVars, loginVars, savedVars, storeVars, collegeDataCache, collegeDataCacheTime,
                   csvFile, gc>>

\* The catalog file is replaced, removed or restored.
CatalogFileChanges ==
    /\ \E f \in CatalogFiles \ {csvFile} : csvFile' = f
    /\ UNCHANGED <<rateVars, loginVars, savedVars, storeVars, collegeDataCache, collegeDataCacheTime,
                   now, gc>>

InitCatalog ==
    /\ RateIdle
    /\ LoginsIdle
    /\ SavedIdle
    /\ StoreIdle
    /\ collegeDataCache = Null
    /\ collegeDataCacheTime = Null
    /\ now = ServerStart
    /\ csvFile \in CatalogFiles
    /\ gc = NoCatalogCall

NextCatalog == GetCollegeData \/ ClockAdvances \/ CatalogFileChanges

SpecCatalog == InitCatalog /\ [][NextCatalog]_vars

(***************************************************************************)
(* The accounts file (server.js): escapeCSV, parseCSVValue, writeAccounts  *)
(* and readAccounts.  An account maps every column name to a value.  The   *)
(* list columns (majors, ap_courses, activities, interests) hold the empty *)
(* array, numbers are natural numbers.                                     *)
(***************************************************************************)
Quote == "\""
HeaderNames == {headers[i] : i \in 1..Len(headers)}
ListColumns == {"majors", "interests", "ap_courses", "activities"}

\* stringValue.includes(ch)
Includes(s, ch) == \E i \in 1..Len(s) : s[i] = ch

\* stringValue.replace(/"/g, '""')
RECURSIVE DoubleQuotes(_)
DoubleQuotes(s) ==
    IF s = <<>> THEN <<>>
    ELSE (IF Head(s) = Quote THEN <<Quote, Quote>> ELSE <<Head(s)>>) \o DoubleQuotes(Tail(s))

\* escapeCSV(value)
EscapeCSV(value) ==
    IF value = Null \/ value = Undefined THEN <<>>
    ELSE IF Includes(StringOf(value), ",") \/ Includes(StringOf(value), Quote)
            \/ Includes(StringOf(value), "\n")
    THEN <<Quote>> \o DoubleQuotes(StringOf(value)) \o <<Quote>>
    ELSE StringOf(value)

\* value.replace(/""/g, '"')
RECURSIVE UndoubleQuotes(_)
UndoubleQuotes(s) ==
    IF s = <<>> THEN <<>>
    ELSE IF Len(s) >= 2 /\ s[1] = Quote /\ s[2] = Quote
    THEN <<Quote>> \o UndoubleQuotes(Drop(s, 2))
    ELSE <<Head(s)>> \o UndoubleQuotes(Tail(s))

\* parseCSVValue(value)
ParseCSVValue(value) ==
    IF value = <<>> THEN <<>>
    ELSE IF Head(value) = Quote /\ value[Len(value)] = Quote
    THEN UndoubleQuotes(SubSeq(value, 2, Len(value) - 1))
    ELSE value

\* text.split(sep)
SeparatorsIn(s, sep) == {i \in 1..Len(s) : s[i] = sep}
\* The position of the k-th separator; 0 before the first, Len(s) + 1 after the last
KthSeparator(s, seps, k) ==
    IF k = 0 THEN 0
    ELSE IF k > Cardinality(seps) THEN Len(s) + 1
    ELSE CHOOSE p \in seps : Cardinality({q \in seps : q < p}) = k - 1
PiecesBetween(s, seps) ==
    [k \in 1..(Cardinality(seps) + 1) |->
        SubSeq(s, KthSeparator(s, seps, k - 1) + 1, KthSeparator(s, seps, k) - 1)]
SplitOn(s, sep) == PiecesBetween(s, SeparatorsIn(s, sep))

\* The loop of readAccounts over the characters of a line from position j on
RECURSIVE ScanLine(_, _, _, _, _)
ScanLine(line, j, current, inQuotes, values) ==
    IF j > Len(line) THEN Append(values, ParseCSVValue(Trim(current)))
    ELSE IF line[j] = Quote
    THEN IF inQuotes /\ j + 1 <= Len(line) /\ line[j + 1] = Quote
         THEN ScanLine(line, j + 2, Append(current, Quote), inQuotes, values)
         ELSE ScanLine(line, j + 1, current, ~inQuotes, values)
    ELSE IF line[j] = "," /\ ~inQuotes
    THEN ScanLine(line, j + 1, <<>>, inQuotes, Append(values, ParseCSVValue(Trim(current))))
    ELSE ScanLine(line, j + 1, Append(current, line[j]), inQuotes, values)

\* JSON.parse(text) for the texts the model hands to it: [], a natural number, true or
\* false; every other text is not JSON and makes it throw.
JsonError == JsVal("error", 0, 1, <<>>)
JsonParse(text) ==
    IF text = <<"[", "]">> THEN Arr(<<>>)
    ELSE IF text # <<>> /\ Span(text, Digits) = Len(text) THEN IntNum(DigitsValue(text))
    ELSE IF text = <<"t", "r", "u", "e">> THEN Bool(TRUE)
    ELSE IF text = <<"f", "a", "l", "s", "e">> THEN Bool(FALSE)
    ELSE JsonError

\* A list column as readAccounts parses it
ParsedList(text) ==
    IF text = <<>> \/ JsonParse(text) = JsonError THEN Arr(<<>>) ELSE JsonParse(text)

\* account.activities: '[object Object]', JSON, or the legacy lines, each of which
\* becomes an entry without hours when it does not begin with a number
LegacyActivity(line) == [hours |-> Str(<<>>), description |-> Str(Trim(line))]
ParsedActivities(text) ==
    IF Trim(text) = <<>> THEN Arr(<<>>)
    ELSE IF Head(Trim(text)) = "["
    THEN (IF JsonParse(text) = JsonError THEN Arr(<<>>) ELSE JsonParse(text))
    ELSE Arr([i \in 1..Len(SelectSeq(SplitOn(text, "\n"), LAMBDA l : Trim(l) # <<>>)) |->
                 LegacyActivity(SelectSeq(SplitOn(text, "\n"), LAMBDA l : Trim(l) # <<>>)[i])])

ParsedWeighted(text) ==
    IF text = <<"t", "r", "u", "e">> THEN Bool(TRUE)
    ELSE IF text = <<"f", "a", "l", "s", "e">> THEN Bool(FALSE)
    ELSE Str(text)

ParsedRating(text) ==
    IF text # <<>> /\ ~IsNaN(ParseFloat(text)) THEN ParseFloat(text) ELSE Null

\* The value readAccounts gives column h of a row with these values
ColumnValue(h, text) ==
    CASE h = "weighted" -> ParsedWeighted(text)
      [] h \in {"majors", "ap_courses", "interests"} -> ParsedList(text)
      [] h = "activities" -> ParsedActivities(text)
      [] h = "rating" -> ParsedRating(text)
      [] OTHER -> Str(text)

\* The position of column h in the header line
ColumnOf(hs, h) == CHOOSE i \in 1..Len(hs) : hs[i] = h

\* The account made of the values of one line
AccountOfValues(hs, values) ==
    [h \in {hs[i] : i \in 1..Len(hs)} |-> ColumnValue(h, values[ColumnOf(hs, h)])]

\* The non-blank lines of the file
LinesOf(csvText) == SelectSeq(SplitOn(csvText, "\n"), LAMBDA line : Trim(line) # <<>>)

\* lines[0].split(',').map(h => h.trim()): the column names
HeaderNamesOf(pieces) == [i \in 1..Len(pieces) |-> Trim(pieces[i])[1]]
HeadersOf(line) == HeaderNamesOf(SplitOn(line, ","))

\* The accounts of a line: one when it has a value for every column, none otherwise
AccountsOfValues(hs, values) ==
    IF Len(values) >= Len(hs) THEN <<AccountOfValues(hs, values)>> ELSE <<>>

RECURSIVE AccountsOfLines(_, _)
AccountsOfLines(hs, lines) ==
    IF lines = <<>> THEN <<>>
    ELSE AccountsOfValues(hs, ScanLine(Head(lines), 1, <<>>, FALSE, <<>>))
         \o AccountsOfLines(hs, Tail(lines))

\* The accounts of the non-blank lines
AccountsOfFile(lines) ==
    IF Len(lines) <= 1 THEN <<>> ELSE AccountsOfLines(HeadersOf(lines[1]), Tail(lines))

\* readAccounts() of a file with this text
ReadAccounts(csvText) == AccountsOfFile(LinesOf(csvText))

\* The text writeAccounts puts in column header of the row of account
CellText(account, header) ==
    IF header \in ListColumns
    THEN IF IsString(account[header]) /\ Trim(account[header].s) # <<>>
         THEN account[header].s
         ELSE <<"[", "]">>
    ELSE IF header = "rating"
    THEN IF account[header] \notin {Null, Undefined, Str(<<>>)}
         THEN StringOf(account[header]) ELSE <<>>
    ELSE IF header = "weighted"
    THEN IF Or(account[header], Str(<<>>)) = Bool(TRUE)
         THEN <<"t", "r", "u", "e">> ELSE <<"f", "a", "l", "s", "e">>
    ELSE StringOf(Or(account[header], Str(<<>>)))

\* row.join(',') for the cells from column i on
RECURSIVE RowText(_, _)
RowText(account, i) ==
    IF i > Len(headers) THEN <<>>
    ELSE EscapeCSV(Str(CellText(account, headers[i])))
         \o (IF i < Len(headers) THEN <<",">> ELSE <<>>)
         \o RowText(account, i + 1)

RECURSIVE RowsText(_)
RowsText(accounts) ==
    IF accounts = <<>> THEN <<>>
    ELSE RowText(Head(accounts), 1) \o <<"\n">> \o RowsText(Tail(accounts))

\* The text writeAccounts(accounts) writes
AccountsCsvOf(accounts) == HeaderOnlyCsv \o RowsText(accounts)

\* new Date().toISOString() at instant t
IsoTime(t) == Str(<<"T">> \o NatDigits(t))

\* An account as saveAccount creates it
NewAccount(userId, name, gpa, careerGoals, rating, t) ==
    [h \in HeaderNames |->
        CASE h = "user_id" -> userId
          [] h = "name" -> name
          [] h = "gpa" -> gpa
          [] h = "career_goals" -> careerGoals
          [] h = "weighted" -> Bool(TRUE)
          [] h \in ListColumns -> Arr(<<>>)
          [] h = "rating" -> rating
          [] h \in {"created_at", "updated_at"} -> IsoTime(t)
          [] OTHER -> Str(<<>>)]

\* The strings the scalar fields of the written accounts hold
ScalarStrings ==
    {Str(<<>>), Str(<<"a">>), Str(<<"a", ",", "b">>), Str(<<"a", Quote, "b">>),
     Str(<<Quote, "a", Quote>>), Str(<<"a", "\n", "b">>), Str(<<" ", "a", " ">>)}

WrittenAccounts ==
    {<<NewAccount(Str(<<"u", "1">>), n, g, c, Null, ServerStart)>> :
        n \in ScalarStrings, g \in ScalarStrings, c \in ScalarStrings}
    \cup
    {<<NewAccount(Str(<<"u", "1">>), Str(<<"a">>), Str(<<"3", ".", "5">>), Str(<<>>),
                  IntNum(85), ServerStart),
       NewAccount(Str(<<"u", "2">>), n, Str(<<"4">>), c, Null, ServerStart)>> :
        n \in ScalarStrings, c \in ScalarStrings}

\* writeAccounts(accounts)
WriteAccounts ==
    /\ rt.pc = "called"
    /\ accountsCsv' = AccountsCsvOf(rt.accounts)
    /\ rt' = [rt EXCEPT !.pc = "written"]
    /\ UNCHANGED <<rateVars, loginVars, savedVars, cacheVars, sa, pr>>

\* readAccounts()
ReadAccountsBack ==
    /\ rt.pc = "written"
    /\ rt' = [pc |-> "read", accounts |-> rt.accounts, readBack |-> ReadAccounts(accountsCsv)]
    /\ UNCHANGED <<rateVars, loginVars, savedVars, cacheVars, accountsCsv, sa, pr>>

InitRoundTrip ==
    /\ RateIdle
    /\ LoginsIdle
    /\ SavedIdle
    /\ CacheIdle
    /\ accountsCsv = HeaderOnlyCsv
    /\ sa = NoSaveCall
    /\ pr = [q \in Requests |-> NoRequest]
    /\ \E accounts \in WrittenAccounts : rt = [pc |-> "called", accounts |-> accounts]

NextRoundTrip == WriteAccounts \/ ReadAccountsBack

SpecRoundTrip == InitRoundTrip /\ [][NextRoundTrip]_vars

(***************************************************************************)
(* saveAccount and getAccount (server.js).  accountData maps the fields it *)
(* supplies to their values.                                               *)
(***************************************************************************)
\* accountData[h], undefined when the field is not supplied
Field(accountData, h) == IF h \in DOMAIN accountData THEN accountData[h] ELSE Undefined

\* accounts.findIndex(acc => acc.user_id === userId), 0 when there is none
FindAccount(accounts, userId) ==
    IF \E i \in 1..Len(accounts) : accounts[i]["user_id"] = userId
    THEN CHOOSE i \in 1..Len(accounts) :
             /\ accounts[i]["user_id"] = userId
             /\ \A j \in 1..(i - 1) : accounts[j]["user_id"] # userId
    ELSE 0

\* getAccount(userId)
GetAccount(accounts, userId) ==
    IF FindAccount(accounts, userId) # 0 THEN accounts[FindAccount(accounts, userId)] ELSE Null

\* {...accounts[existingIndex], ...accountData, updated_at: now}
UpdatedAccount(existing, accountData, t) ==
    [h \in HeaderNames |->
        IF h = "updated_at" THEN IsoTime(t)
        ELSE IF h \in DOMAIN accountData THEN accountData[h]
        ELSE existing[h]]

\* The account saveAccount pushes for a user_id it did not find
CreatedAccount(accountData, t) ==
    [h \in HeaderNames |->
        CASE h = "user_id" -> Field(accountData, "user_id")
          [] h = "weighted" -> IF Field(accountData, "weighted") # Undefined
                               THEN Field(accountData, "weighted") ELSE Bool(TRUE)
          [] h \in {"majors", "ap_courses", "interests"} -> Or(Field(accountData, h), Arr(<<>>))
          [] h = "activities" -> IF IsArray(Field(accountData, "activities"))
                                 THEN Field(accountData, "activities") ELSE Arr(<<>>)
          [] h = "career_goals" -> Or(Field(accountData, "career_goals"),
                                      Or(Field(accountData, "careerGoals"), Str(<<>>)))
          [] h = "rating" -> Or(Field(accountData, "rating"), Null)
          [] h \in {"created_at", "updated_at"} -> IsoTime(t)
          [] OTHER -> Or(Field(accountData, h), Str(<<>>))]

\* The list saveAccount hands to writeAccounts
AccountsAfterSave(accounts, accountData, t) ==
    IF FindAccount(accounts, Field(accountData, "user_id")) # 0
    THEN [accounts EXCEPT ![FindAccount(accounts, Field(accountData, "user_id"))] =
             UpdatedAccount(@, accountData, t)]
    ELSE Append(accounts, CreatedAccount(accountData, t))

\* The arguments of the saveAccount calls
UserIds == {Str(<<"u", "1">>), Str(<<"u", "2">>), Str(<<"u", "1", " ">>)}
AccountNames == {Str(<<"a">>), Str(<<"b">>)}
AccountDatas ==
    [user_id : UserIds, name : AccountNames]
    \cup [user_id : UserIds, name : AccountNames, rating : {IntNum(90)}]

\* saveAccount(accountData), a minute after the call before it: the accounts are read,
\* changed and written in one step; writeFileSync may throw, and false is returned.
SaveAccountOf(datas) ==
    /\ now < ServerStart + MaxSaves * 60000
    /\ LET accounts == ReadAccounts(accountsCsv)
       IN  \E accountData \in datas, written \in BOOLEAN :
               /\ accountsCsv' =
                      IF written THEN AccountsCsvOf(AccountsAfterSave(accounts, accountData, now))
                      ELSE accountsCsv
               /\ sa' = [op |-> "saveAccount", accountData |-> accountData,
                         before |-> accounts, at |-> now, result |-> written]
    /\ now' = now + 60000
    /\ UNCHANGED <<rateVars, loginVars, savedVars, collegeDataCache, collegeDataCacheTime, csvFile, gc, rt,
                   pr>>

SaveAccount == SaveAccountOf(AccountDatas)

InitAccounts == RateIdle /\ SavedIdle /\ CacheIdle /\ StoreIdle /\ LoginsIdle

NextAccounts == SaveAccount

SpecAccounts == InitAccounts /\ [][NextAccounts]_vars

(***************************************************************************)
(* POST /api/profile (server.js): the handler runs up to its await of      *)
(* rateStudent and, when that promise has settled, from there to its       *)
(* response.                                                               *)
(***************************************************************************)
\* The bodies the clients post: user_id and name; the other fields are not sent.
ProfileBody(userId, name) == [user_id |-> userId, name |-> name]
ProfileBodies ==
    {ProfileBody(Undefined, Str(<<"a">>)),
     ProfileBody(Str(<<"u", "1">>), Str(<<"a">>)),
     ProfileBody(Str(<<"u", "2">>), Str(<<"b">>)),
     ProfileBody(Str(<<"u", "2">>), Str(<<"a", "\n", "b">>))}

\* How the rateStudent call of the handler settles: with a score, with NaN, or rejected.
RatingOutcomes ==
    {[settled |-> "resolved", value |-> IntNum(72)],
     [settled |-> "resolved", value |-> NaN],
     [settled |-> "rejected", value |-> Undefined]}

\* The rating the handler keeps
RatingOf(outcome) ==
    IF outcome.settled = "resolved" /\ outcome.value # Null /\ outcome.value # Undefined
       /\ ~IsNaN(outcome.value)
    THEN outcome.value
    ELSE Null

\* const accountData = {...} of the handler
AccountDataOf(profileData, rating) ==
    [h \in HeaderNames \ {"created_at", "updated_at"} |->
        CASE h = "user_id" -> profileData.user_id
          [] h = "name" -> Or(profileData.name, Str(<<>>))
          [] h = "weighted" -> Bool(TRUE)
          [] h \in ListColumns -> Arr(<<>>)
          [] h = "rating" -> rating
          [] OTHER -> Str(<<>>)]

\* The accounts file before the first request: empty, or with a rated account of u1
EarlierAccounts ==
    {<<>>, <<NewAccount(Str(<<"u", "1">>), Str(<<"o", "l", "d">>), Str(<<>>), Str(<<>>),
                        IntNum(85), ServerStart)>>}

\* The request arrives: without user_id it is answered with 400; otherwise rateStudent
\* is called and the handler waits for it.
ProfilePostReceive(q) ==
    /\ pr[q].pc = "idle"
    /\ \E profileData \in ProfileBodies :
           pr' = [pr EXCEPT ![q] =
                    IF ~Truthy(profileData.user_id)
                    THEN [pc |-> "done", body |-> profileData, status |-> 400,
                          storeBefore |-> accountsCsv, storeAfter |-> accountsCsv]
                    ELSE [pc |-> "rating", body |-> profileData]]
    /\ UNCHANGED <<rateVars, loginVars, savedVars, cacheVars, accountsCsv, rt, sa>>

\* The request after its await: the rating is taken or dropped, the account is saved
\* and the response sent.
ProfilePostFinish(q, outcome, written) ==
    LET accountData == AccountDataOf(pr[q].body, RatingOf(outcome))
        accounts == ReadAccounts(accountsCsv)
        csv == IF written THEN AccountsCsvOf(AccountsAfterSave(accounts, accountData, now))
               ELSE accountsCsv
    IN  /\ accountsCsv' = csv
        /\ sa' = [op |-> "saveAccount", accountData |-> accountData, before |-> accounts,
                  at |-> now, result |-> written]
        /\ pr' = [pr EXCEPT ![q] =
                     [pc |-> "done", body |-> pr[q].body, status |-> IF written THEN 200 ELSE 500,
                      storeBefore |-> accountsCsv, storeAfter |-> csv, outcome |-> outcome,
                      rating |-> RatingOf(outcome), success |-> written]]

\* The promise the handler waits for has settled.
CanFinish(q) == pr[q].pc = "rating"

ProfilePostResume(q) ==
    /\ CanFinish(q)
    /\ \E outcome \in RatingOutcomes, written \in BOOLEAN : ProfilePostFinish(q, outcome, written)
    /\ now' = now + 60000
    /\ UNCHANGED <<rateVars, loginVars, savedVars, collegeDataCache, collegeDataCacheTime, csvFile, gc, rt>>

InitProfile ==
    /\ RateIdle
    /\ LoginsIdle
    /\ SavedIdle
    /\ CacheIdle
    /\ \E accounts \in EarlierAccounts : accountsCsv = AccountsCsvOf(accounts)
    /\ rt = NoRoundTrip
    /\ sa = NoSaveCall
    /\ pr = [q \in Requests |-> NoRequest]

NextProfile == \E q \in Requests : ProfilePostReceive(q) \/ ProfilePostResume(q)

SpecProfile == InitProfile /\ [][NextProfile]_vars

\* The accounts readAccounts finds in the store
StoredAccounts == ReadAccounts(accountsCsv)

(***************************************************************************)
(* POST /api/auth/signup with readLogins, writeLogins and parseCSVLine     *)
(* (server.js).  A login maps the four column names to strings.            *)
(***************************************************************************)
\* parseCSVLine(line)
ParseCSVLine(line) == ScanLine(line, 1, <<>>, FALSE, <<>>)

LoginOfValues(hs, values) == [h \in {hs[i] : i \in 1..Len(hs)} |-> Str(values[ColumnOf(hs, h)])]

\* The logins of a line: one when it has exactly a value per column, none otherwise
LoginsOfValues(hs, values) ==
    IF Len(values) = Len(hs) THEN <<LoginOfValues(hs, values)>> ELSE <<>>

RECURSIVE LoginsOfLines(_, _)
LoginsOfLines(hs, lines) ==
    IF lines = <<>> THEN <<>>
    ELSE LoginsOfValues(hs, ParseCSVLine(Head(lines))) \o LoginsOfLines(hs, Tail(lines))

LoginsOfFile(lines) ==
    IF Len(lines) < 2 THEN <<>>
    ELSE LoginsOfLines([i \in 1..Len(ParseCSVLine(lines[1])) |-> ParseCSVLine(lines[1])[i][1]],
                       Tail(lines))

\* readLogins() of a file with this text
ReadLogins(csvText) == LoginsOfFile(LinesOf(csvText))

\* A cell of writeLogins
LoginCell(value) ==
    IF Includes(value.s, ",") \/ Includes(value.s, "\n") \/ Includes(value.s, Quote)
    THEN <<Quote>> \o DoubleQuotes(value.s) \o <<Quote>>
    ELSE value.s

RECURSIVE LoginRowText(_, _)
LoginRowText(login, i) ==
    IF i > Len(loginHeaders) THEN <<>>
    ELSE LoginCell(Or(login[loginHeaders[i]], Str(<<>>)))
         \o (IF i < Len(loginHeaders) THEN <<",">> ELSE <<>>)
         \o LoginRowText(login, i + 1)

RECURSIVE LoginRowsText(_)
LoginRowsText(logins) ==
    IF logins = <<>> THEN <<>>
    ELSE LoginRowText(Head(logins), 1) \o <<"\n">> \o LoginRowsText(Tail(logins))

\* The text writeLogins(logins) writes
LoginsCsvOf(logins) == HeaderOnlyLogins \o LoginRowsText(logins)

\* email.toLowerCase() over the letters of the e-mails of the model
LowerCase(s) ==
    [i \in 1..Len(s) |-> IF s[i] = "A" THEN "a" ELSE IF s[i] = "B" THEN "b" ELSE s[i]]

\* email.toLowerCase().trim()
NormalEmail(email) == Str(Trim(LowerCase(email.s)))

\* generateUserId() at instant t; the random suffix is left out
GenerateUserId(t) == Str(<<"u", "s", "e", "r", "_">> \o NatDigits(t))

\* The position of the login found by logins.find(login => login.email === email), 0 if none
FindLogin(logins, email) ==
    IF \E i \in 1..Len(logins) : logins[i]["email"] = email
    THEN CHOOSE i \in 1..Len(logins) : logins[i]["email"] = email
    ELSE 0

\* The account the sign-up pushes
SignupAccount(userId, t) ==
    NewAccount(userId, Str(<<>>), Str(<<>>), Str(<<>>), Null, t)

\* The bodies of the sign-up requests
SignupEmails ==
    {Undefined, Str(<<"a">>), Str(<<"A", " ">>), Str(<<"b">>), Str(<<Quote, "a", Quote>>)}
SignupBodies == [email : SignupEmails, password_hash : {Undefined, Str(<<"h">>)}]

\* What the request leaves in su
SignupAnswer(body, status, userId, logins, csvLogins, csvAccounts) ==
    [op |-> "signup", body |-> body, status |-> status, userId |-> userId,
     loginsBefore |-> logins, loginsCsvBefore |-> loginsCsv, accountsCsvBefore |-> accountsCsv,
     loginsCsvAfter |-> csvLogins, accountsCsvAfter |-> csvAccounts]

\* The handler from the check of the e-mail on; each write may throw inside
\* writeLogins or writeAccounts, which then return false.
SignupCreateUnchecked(body, loginsWritten, accountsWritten) ==
    LET logins == ReadLogins(loginsCsv)
        userId == GenerateUserId(now)
        newLogin == [h \in {loginHeaders[i] : i \in 1..Len(loginHeaders)} |->
                        CASE h = "email" -> NormalEmail(body.email)
                          [] h = "password_hash" -> body.password_hash
                          [] h = "user_id" -> userId
                          [] OTHER -> IsoTime(now)]
        csvLogins == LoginsCsvOf(Append(logins, newLogin))
        csvAccounts == AccountsCsvOf(Append(ReadAccounts(accountsCsv), SignupAccount(userId, now)))
    IN  IF ~loginsWritten
        THEN /\ su' = SignupAnswer(body, 500, userId, logins, loginsCsv, accountsCsv)
             /\ UNCHANGED <<loginsCsv, accountsCsv>>
        ELSE /\ loginsCsv' = csvLogins
             /\ accountsCsv' = IF accountsWritten THEN csvAccounts ELSE accountsCsv
             /\ su' = SignupAnswer(body, 200, userId, logins, csvLogins, accountsCsv')
SignupCreate(body, loginsWritten, accountsWritten) ==
    LET logins == ReadLogins(loginsCsv)
    IN  IF FindLogin(logins, NormalEmail(body.email)) # 0
        THEN /\ su' = SignupAnswer(body, 400, Undefined, logins, loginsCsv, accountsCsv)
             /\ UNCHANGED <<loginsCsv, accountsCsv>>
        ELSE SignupCreateUnchecked(body, loginsWritten, accountsWritten)

\* POST /api/auth/signup, a minute after the request before it
Signup ==
    /\ now < ServerStart + MaxSignups * 60000
    /\ \E body \in SignupBodies, loginsWritten \in BOOLEAN, accountsWritten \in BOOLEAN :
           IF ~Truthy(body.email) \/ ~Truthy(body.password_hash)
           THEN /\ su' = SignupAnswer(body, 400, Undefined, <<>>, loginsCsv, accountsCsv)
                /\ UNCHANGED <<loginsCsv, accountsCsv>>
           ELSE SignupCreate(body, loginsWritten, accountsWritten)
    /\ now' = now + 60000
    /\ UNCHANGED <<rateVars, savedVars, collegeDataCache, collegeDataCacheTime, csvFile, gc, rt,
                   sa, pr>>

InitSignup == RateIdle /\ SavedIdle /\ CacheIdle /\ StoreIdle /\ LoginsIdle

NextSignup == Signup

SpecSignup == InitSignup /\ [][NextSignup]_vars

(***************************************************************************)
(* Claims about sign-up, checked under SpecSignup.                         *)
(***************************************************************************)
\* No two logins of the list have the same e-mail, lower-cased and trimmed.
UniqueEmails(logins) ==
    \A i, j \in 1..Len(logins) :
        i # j => NormalEmail(logins[i]["email"]) # NormalEmail(logins[j]["email"])

\* The number of entries of the list for the user_id
EntriesOf(entries, userId) ==
    Cardinality({i \in 1..Len(entries) : entries[i]["user_id"] = userId})

\* The e-mail of the request was in the logins the request read.
EmailExisted ==
    /\ Truthy(su.body.email)
    /\ \E i \in 1..Len(su.loginsBefore) :
           NormalEmail(su.loginsBefore[i]["email"]) = NormalEmail(su.body.email)

SignupAsClaimed(logins, accounts) ==
    /\ UniqueEmails(logins)
    /\ su.op = "signup" =>
           /\ EmailExisted => /\ su.status = 400
                               /\ su.loginsCsvAfter = su.loginsCsvBefore
                               /\ su.accountsCsvAfter = su.accountsCsvBefore
           /\ su.status = 200 => /\ EntriesOf(logins, su.userId) = 1
                                  /\ EntriesOf(accounts, su.userId) = 1

\* C30: no two logins have the same e-mail, lower-cased and trimmed; a sign-up with
\* an e-mail that exists gets 400 and changes neither store; a successful sign-up
\* leaves exactly one login and one account for the new user_id.
C30_UniqueEmails == SignupAsClaimed(ReadLogins(loginsCsv), ReadAccounts(accountsCsv))

(***************************************************************************)
(* Claims about POST /api/profile, checked under SpecProfile.              *)
(***************************************************************************)
\* Request q was answered with success.
Succeeded(q) == pr[q].pc = "done" /\ pr[q].status = 200

\* The list holds the profile request q posted, under its user_id.
HoldsProfileOf(accounts, q) ==
    /\ GetAccount(accounts, pr[q].body.user_id) # Null
    /\ GetAccount(accounts, pr[q].body.user_id)["name"] = pr[q].body.name
    /\ GetAccount(accounts, pr[q].body.user_id)["rating"] = pr[q].rating

BothProfilesHeld(accounts) == \A q \in Requests : HoldsProfileOf(accounts, q)

\* C27: once two requests for different users have both succeeded, the store holds
\* both users' profiles, however their waits for rateStudent were interleaved.
C27_NoLostUpdate ==
    ((\A q \in Requests : Succeeded(q)) /\ pr["A"].body.user_id # pr["B"].body.user_id)
        => BothProfilesHeld(StoredAccounts)

\* The rating of request q failed: rateStudent threw or gave NaN.
RatingFailed(q) ==
    pr[q].outcome.settled = "rejected" \/ ~IsNum(pr[q].outcome.value)

\* What C28 says of a request that was answered
AnsweredAsClaimed(q) ==
    IF ~Truthy(pr[q].body.user_id)
    THEN pr[q].status = 400 /\ pr[q].storeAfter = pr[q].storeBefore
    ELSE /\ pr[q].status = (IF pr[q].success THEN 200 ELSE 500)
         /\ (RatingFailed(q) /\ pr[q].success)
                => /\ GetAccount(ReadAccounts(pr[q].storeAfter), pr[q].body.user_id) # Null
                   /\ GetAccount(ReadAccounts(pr[q].storeAfter), pr[q].body.user_id)["rating"] = Null
                   /\ GetAccount(ReadAccounts(pr[q].storeAfter), pr[q].body.user_id)["name"]
                          = pr[q].body.name

\* C28: when rateStudent throws or yields a non-number the profile is saved with rating
\* null, replacing an earlier rating, and the response depends only on the save; a
\* request without user_id gets 400 and changes nothing.
C28_RatingFailureStillSaves ==
    \A q \in Requests : pr[q].pc = "done" => AnsweredAsClaimed(q)

(***************************************************************************)
(* Claims about saveAccount, checked under SpecAccounts.                   *)
(***************************************************************************)
\* The list holds at most one account per user_id.
OneAccountPerUser(accounts) ==
    \A i, j \in 1..Len(accounts) : i # j => accounts[i]["user_id"] # accounts[j]["user_id"]

\* The account is the earlier one with the supplied fields replaced.
ReplacedInPlace(account, earlier, accountData) ==
    /\ \A h \in DOMAIN accountData : account[h] = accountData[h]
    /\ account["created_at"] = earlier["created_at"]
    /\ \A h \in HeaderNames \ (DOMAIN accountData \cup {"updated_at"}) : account[h] = earlier[h]

\* The list is what an upsert of accountData makes of the list before.
Upserted(accounts, before, accountData) ==
    IF \E i \in 1..Len(before) : before[i]["user_id"] = accountData.user_id
    THEN /\ Len(accounts) = Len(before)
         /\ \A i \in 1..Len(before) :
                IF before[i]["user_id"] = accountData.user_id
                THEN ReplacedInPlace(accounts[i], before[i], accountData)
                ELSE accounts[i] = before[i]
    ELSE /\ Len(accounts) = Len(before) + 1
         /\ SubSeq(accounts, 1, Len(before)) = before
         /\ accounts[Len(accounts)]["user_id"] = accountData.user_id

UpsertHolds(accounts) ==
    /\ OneAccountPerUser(accounts)
    /\ (sa.op = "saveAccount" /\ sa.result) => Upserted(accounts, sa.before, sa.accountData)

\* C26: the store holds at most one account per user_id; a successful save of a
\* user_id that exists replaces the supplied fields of that account in place, keeps its
\* created_at and leaves every other account unchanged; a successful save of a new
\* user_id appends exactly one account.
C26_AccountUpsert == UpsertHolds(StoredAccounts)

(***************************************************************************)
(* Claims about the accounts file, checked under SpecRoundTrip.            *)
(***************************************************************************)
ScalarColumns == {"name", "grade", "gpa", "sat", "act", "psat", "career_goals"}

\* C29: readAccounts after writeAccounts returns the same number of accounts with the
\* same values in the scalar fields, whatever strings those fields hold.
C29_AccountsRoundTrip ==
    rt.pc = "read" =>
        /\ Len(rt.readBack) = Len(rt.accounts)
        /\ \A i \in 1..Len(rt.accounts) :
               \A h \in ScalarColumns : rt.readBack[i][h] = rt.accounts[i][h]

(***************************************************************************)
(* Claims about the catalog cache, checked under SpecCatalog.              *)
(***************************************************************************)
\* A list was cached before the call.
HadCache == gc.cached # Null

\* The time from the load of the cached list to the call, in milliseconds
CacheAge == gc.at - gc.cachedAt.n

\* The call came no later than 5 minutes after that load.
WithinFiveMinutes == CacheAge <= 300000

\* C25: getCollegeData reads the file only when nothing is cached or the cached list is
\* older than 5 minutes; a call within 5 minutes of the last load returns the list that
\* load cached without reading the file, also when that load failed and cached [].
C25_CacheWindow ==
    gc.op = "getCollegeData" =>
        /\ gc.read => (~HadCache \/ ~WithinFiveMinutes)
        /\ (HadCache /\ WithinFiveMinutes)
               => ~gc.read /\ gc.result = gc.cached /\ collegeDataCache = gc.cached
        /\ gc.result = collegeDataCache

\* A call 5 minutes after a failed load returned the empty list without reading the
\* file, which has rows by now.
C25_Witness ==
    /\ gc.op = "getCollegeData"
    /\ HadCache
    /\ CacheAge = 300000
    /\ ~gc.read
    /\ gc.loadFailed
    /\ gc.result = Arr(<<>>)
    /\ csvFile.readable /\ csvFile.rows # <<>>

(***************************************************************************)
(* Claims about SavedColleges, checked under SpecSaved.                    *)
(***************************************************************************)
\* The list held an entry with exactly this id.
HeldId(colleges, id) == \E i \in 1..Len(colleges) : colleges[i].id = id

C24_NoDuplicateIds ==
    /\ \A i, j \in 1..Len(savedColleges) :
           i # j => StringOf(savedColleges[i].id) # StringOf(savedColleges[j].id)
    /\ (sc.op = "add" /\ IsSaved(sc.before, sc.id)) => savedColleges = sc.before

(***************************************************************************)
(* Claims about getAdmissionOdds, checked under SpecOdds.                  *)
(***************************************************************************)
\* typeof v === 'number'
IsNumberTyped(v) == v.k \in {"number", "NaN"}

\* v is a number in [0,100]
InScoreRange(v) == IsNum(v) /\ Le(IntNum(0), v) /\ Le(v, IntNum(100))

\* v is an integer in [lo,hi]
IsIntegerIn(v, lo, hi) == IsNum(v) /\ v.d = 1 /\ lo <= v.n /\ v.n <= hi

OddsReturned == ao.pc = "returned"

\* C3: for every pair of inputs of type number, also outside [0,100], the call
\* returns an integer in [2,98].
C3_OddsWithinBounds ==
    (OddsReturned /\ IsNumberTyped(ao.studentScore) /\ IsNumberTyped(ao.collegeScore))
        => IsIntegerIn(ao.odds, 2, 98)

\* A call with a student score above 100 and the college score 0 returned the upper bound.
C3_Witness ==
    /\ OddsReturned
    /\ Gt(ao.studentScore, IntNum(100))
    /\ ao.collegeScore = IntNum(0)
    /\ ao.odds = IntNum(98)

\* C4: equal scores s in [0,100] give exactly 50.
C4_SelfComparisonIsEven ==
    (OddsReturned /\ InScoreRange(ao.studentScore) /\ ao.collegeScore = ao.studentScore)
        => ao.odds = IntNum(50)

\* getAdmissionOdds(70, 70) returned 50.
C4_Witness ==
    /\ OddsReturned
    /\ ao.studentScore = IntNum(70)
    /\ ao.collegeScore = IntNum(70)
    /\ ao.odds = IntNum(50)

\* The scores in [0,100] among the inputs, and for each pair of them the delta and
\* the odds getAdmissionOdds gives.
ScoreGrid == {v \in OddsInputs : InScoreRange(v)}
OddsByDelta == {<<Sub(a, b), GetAdmissionOdds(a, b)>> : a \in ScoreGrid, b \in ScoreGrid}

\* C5: a call with scores in [0,100] returns at most what any pair of scores in
\* [0,100] with a delta at least as large gives.
C5_OddsMonotoneInDelta ==
    (OddsReturned /\ InScoreRange(ao.studentScore) /\ InScoreRange(ao.collegeScore))
        => \A p \in OddsByDelta :
               Le(Sub(ao.studentScore, ao.collegeScore), p[1]) => Le(ao.odds, p[2])

\* A call returned strictly less than a pair with a larger delta gives.
C5_Witness ==
    /\ OddsReturned
    /\ ao.studentScore = IntNum(40)
    /\ ao.collegeScore = IntNum(60)
    /\ Lt(ao.odds, GetAdmissionOdds(IntNum(55), IntNum(50)))

\* C6: for scores in [0,100] the odds of (a,b) and of (b,a) add up to 100 within 1.
C6_OddsSymmetric ==
    (OddsReturned /\ InScoreRange(ao.studentScore) /\ InScoreRange(ao.collegeScore))
        => LET sum == Add(ao.odds, GetAdmissionOdds(ao.collegeScore, ao.studentScore))
           IN  Le(IntNum(99), sum) /\ Le(sum, IntNum(101))

\* A call with a non-zero delta whose odds are not 50 returned.
C6_Witness ==
    /\ OddsReturned
    /\ ao.studentScore = IntNum(90)
    /\ ao.collegeScore = IntNum(0)
    /\ Gt(ao.odds, IntNum(50))
    /\ Lt(GetAdmissionOdds(ao.collegeScore, ao.studentScore), IntNum(50))

\* What C7 says an input is used as: 0 when it is absent or not numeric, otherwise
\* its numeric value clamped to [0,100].
C7_UsedAs(x) ==
    LET v == IF IsString(x) THEN ParseFloat(x.s) ELSE x
    IN  IF IsNum(v)
        THEN (IF Lt(v, IntNum(0)) THEN IntNum(0)
              ELSE IF Gt(v, IntNum(100)) THEN IntNum(100) ELSE v)
        ELSE IntNum(0)

\* C7: the result is that of the two clamped inputs, an absent or non-numeric input
\* counting as 0.
C7_ClampsAndDefaultsInputs ==
    OddsReturned
        => ao.odds = GetAdmissionOdds(C7_UsedAs(ao.studentScore), C7_UsedAs(ao.collegeScore))

\* round(clamp(50 + 1.5 * 50 * n / (1 + 0.8*|n|), 2, 98)) with n = (a - b) / 50
ClaimedOdds(a, b) ==
    LET n == Div(Sub(a, b), IntNum(50))
        curve == Add(IntNum(50),
                     Div(Mul(Mul(Num(15, 10), IntNum(50)), n),
                         Add(IntNum(1), Mul(Num(8, 10), MathAbs(n)))))
    IN  MathRound(MathMax(IntNum(2), MathMin(IntNum(98), curve)))

InUnitInterval(v) == IsNum(v) /\ Le(IntNum(0), v) /\ Le(v, IntNum(1))

\* C1: every rateStudent call that resolves gives an integer in [0,100].
C1_StudentScoreInRange ==
    \A c \in Callers : rs[c].pc = "resolved" => IsIntegerIn(rs[c].score, 0, 100)

\* C2: every rateCollege call returns an integer in [0,100].
C2_CollegeScoreInRange ==
    rc.pc = "returned" => IsIntegerIn(rc.score, 0, 100)

\* A record with attributes outside their domains and others absent was rated.
C2_Witness ==
    /\ rc.pc = "returned"
    /\ rc.college # Null
    /\ rc.college.acceptance_rate = Num(3, 2)
    /\ rc.college.sat_50th_percentile = IntNum(399)
    /\ rc.college.graduation_rate = Undefined
    /\ rc.college.median_earnings_10_years = IntNum(200000)
    /\ Gt(rc.score, IntNum(0))

\* The capability failed for a call: no key is configured, the request threw, the
\* response was not 2xx, or the reply carried no number that can be parsed.
ReplyHasNumber(r) ==
    /\ r.kind = "response"
    /\ r.data = "choices"
    /\ IsString(r.content)
    /\ \E i \in 1..Len(r.content.s) : r.content.s[i] \in Digits

CapabilityFailed(call) ==
    \/ GPT_API_KEY = <<>>
    \/ call.response.kind \in {"fetch_rejects", "json_rejects"}
    \/ call.response.kind = "response" /\ ~call.response.ok
    \/ call.response.kind = "response" /\ ~ReplyHasNumber(call.response)

\* C8: a call with non-empty activities whose capability failed resolves to the
\* composite computed with 0.55 for the activities dimension, and a call is rejected
\* only when its apCourses cannot be filtered, never because of the capability.
C8_CapabilityFailureIsNeutral ==
    \A c \in Callers :
        /\ (rs[c].pc = "resolved" /\ Trim(rs[c].activitiesText) # <<>> /\ CapabilityFailed(rs[c]))
              => /\ rs[c].activitiesNorm = Num(55, 100)
                 /\ rs[c].score =
                        MathRound(Mul(StudentComposite(rs[c].gpaNorm, rs[c].testNorm,
                                                       rs[c].apNorm, Num(55, 100)),
                                      IntNum(100)))
                 /\ IsNum(rs[c].score)
        /\ rs[c].pc = "rejected"
              => (rs[c].requests = 0 /\ ApFilterThrows(StudentFields(rs[c].student).apCourses))

\* A call with activities resolved after its request threw, and one after a reply
\* without a number.
C8_Witness ==
    \E c \in Callers :
        /\ rs[c].pc = "resolved"
        /\ Trim(rs[c].activitiesText) # <<>>
        /\ rs[c].requests = 1
        /\ \/ rs[c].response.kind = "fetch_rejects"
           \/ rs[c].response.kind = "response" /\ rs[c].response.ok
              /\ rs[c].response.data = "choices" /\ ~ReplyHasNumber(rs[c].response)
        /\ rs[c].activitiesNorm = Num(55, 100)
        /\ IsNum(rs[c].score)

\* C9: no rateStudent call is rejected, and every one that resolves gives a number.
C9_RateStudentNeverThrows ==
    \A c \in Callers :
        /\ rs[c].pc # "rejected"
        /\ rs[c].pc = "resolved" => IsNum(rs[c].score)

\* C10: every normalized dimension of rateStudent and of rateCollege lies in [0,1].
C10_DimensionsInUnitInterval ==
    /\ \A c \in Callers :
           /\ rs[c].pc \in {"awaiting", "resolved"}
                 => /\ InUnitInterval(rs[c].gpaNorm)
                    /\ InUnitInterval(rs[c].testNorm)
                    /\ InUnitInterval(rs[c].apNorm)
           /\ rs[c].pc = "resolved" => InUnitInterval(rs[c].activitiesNorm)
    /\ rc.pc = "returned"
          => /\ InUnitInterval(rc.acceptanceNorm)
             /\ InUnitInterval(rc.testNorm)
             /\ InUnitInterval(rc.graduationNorm)
             /\ InUnitInterval(rc.retentionNorm)
             /\ InUnitInterval(rc.earningsNorm)
             /\ InUnitInterval(rc.enrollmentNorm)
             /\ InUnitInterval(rc.ratioNorm)

(***************************************************************************)
(* Claims about attributes outside their domains, checked under            *)
(* SpecDomains.                                                            *)
(***************************************************************************)
\* The number an attribute is read as: a string goes through parseFloat.
NumericValue(x) == IF IsString(x) THEN ParseFloat(x.s) ELSE x

\* The attribute is a number above hi, below lo.
Above(x, hi) == IsNum(NumericValue(x)) /\ Gt(NumericValue(x), IntNum(hi))
Below(x, lo) == IsNum(NumericValue(x)) /\ Lt(NumericValue(x), IntNum(lo))

\* gpaMax of a student
GpaMaxOf(f) == IF Truthy(f.weighted) THEN 5 ELSE 4

TestAbsent(x) == x \in {Undefined, Null, Str(<<>>)} \/ NumericValue(x) = IntNum(0)

\* The linear map of a score over lo..hi, clamped to [0,1].
LinearNorm(x, lo, hi) ==
    MathMax(IntNum(0),
            MathMin(IntNum(1), Div(Sub(NumericValue(x), IntNum(lo)), IntNum(hi - lo))))

\* The linear norms of the test scores a student supplied.
SuppliedNorms(f) ==
    (IF TestAbsent(f.sat) THEN {} ELSE {LinearNorm(f.sat, 400, 1600)})
        \cup (IF TestAbsent(f.act) THEN {} ELSE {LinearNorm(f.act, 1, 36)})

\* The largest number of a non-empty set.
MaxOf(S) == CHOOSE m \in S : \A x \in S : Le(x, m)

\* The score of a call had its test dimension been 0.
ScoreWithTestsZeroed(call) ==
    MathRound(Mul(StudentComposite(call.gpaNorm, IntNum(0), call.apNorm, call.activitiesNorm),
                  IntNum(100)))

\* C12: a student whose SAT and ACT are both absent, empty or zero is rated with a
\* test norm of exactly 1/3 and scores strictly more than with the test dimension
\* zeroed; with a score supplied the test norm is the largest linear norm of the
\* supplied scores.
C12_UntestedPolicy ==
    \A c \in Callers :
        rs[c].pc = "resolved" =>
            LET f == StudentFields(rs[c].student)
            IN  IF TestAbsent(f.sat) /\ TestAbsent(f.act)
                THEN /\ rs[c].testNorm = Num(1, 3)
                     /\ Gt(rs[c].score, ScoreWithTestsZeroed(rs[c]))
                ELSE rs[c].testNorm = MaxOf(SuppliedNorms(f))

\* C14: a call sends at most one request to the capability, and a call that resolved
\* after an answer, failed or unusable answers included, has sent exactly one.
C14_NoRetries ==
    \A c \in Callers :
        /\ rs[c].pc \in {"awaiting", "resolved", "rejected"} => rs[c].requests \in {0, 1}
        /\ (rs[c].pc = "resolved" /\ rs[c].response # NoResponse) => rs[c].requests = 1

\* A call resolved with the neutral default after a response that was not 2xx, having
\* sent one request.
C14_Witness ==
    \E c \in Callers :
        /\ rs[c].pc = "resolved"
        /\ rs[c].response.kind = "response"
        /\ ~rs[c].response.ok
        /\ rs[c].activitiesScore10 = NeutralScore
        /\ rs[c].requests = 1

\* min(1, gpa / gpaMax) with gpaMax 5 if weighted else 4, and 0 for a GPA that is
\* absent, not a number or not positive
ClaimedGpaNorm(f) ==
    LET gpa == NumericValue(f.gpa)
    IN  IF IsNum(gpa) /\ Gt(gpa, IntNum(0))
        THEN MathMin(IntNum(1), Div(gpa, IntNum(GpaMaxOf(f))))
        ELSE IntNum(0)

HasCourse(c) == c # Null /\ IsString(c.course) /\ c.course.s # <<>>

\* The score of an AP record as a number, 0 when it is missing or not numeric.
NumericScore(c) == IF IsNum(NumericValue(c.score)) THEN NumericValue(c.score) ELSE IntNum(0)

\* The sum of the scores of the first k records that have a course name.
RECURSIVE SumOfNamed(_, _)
SumOfNamed(items, k) ==
    IF k = 0 THEN IntNum(0)
    ELSE Add(SumOfNamed(items, k - 1),
             IF HasCourse(items[k]) THEN NumericScore(items[k]) ELSE IntNum(0))

\* 0.5*min(1, n/10) + 0.5*min(1, avg/5) for n >= 1 with avg = sum/n, and 0 for n = 0
ApRigor(n, sum) ==
    IF n = 0 THEN IntNum(0)
    ELSE Add(Mul(Num(5, 10), MathMin(IntNum(1), Num(n, 10))),
             Mul(Num(5, 10), MathMin(IntNum(1), Div(Div(sum, IntNum(n)), IntNum(5)))))

FirstInteger(s) ==
    LET first == CHOOSE i \in 1..Len(s) : s[i] \in Digits /\ \A j \in 1..(i - 1) : s[j] \notin Digits
        last == CHOOSE j \in first..Len(s) :
                    /\ \A k \in first..j : s[k] \in Digits
                    /\ j = Len(s) \/ s[j + 1] \notin Digits
    IN  DigitsValue(SubSeq(s, first, last))

\* n clamped into [1,10]
ClampRating(n) == IF n < 1 THEN 1 ELSE IF n > 10 THEN 10 ELSE n

\* C21: the rating a call is resolved with is 5.5 or an integer in [1,10]; after a
\* successful reply with a digit it is the first run of digits, clamped into [1,10];
\* the activities norm lies in [0.1,1.0].
C21_ActivitiesScoreRange ==
    \A c \in Callers :
        rs[c].pc = "resolved" =>
            /\ rs[c].activitiesScore10 = Num(55, 10) \/ IsIntegerIn(rs[c].activitiesScore10, 1, 10)
            /\ (rs[c].response.ok /\ ReplyHasNumber(rs[c].response))
                   => rs[c].activitiesScore10
                          = IntNum(ClampRating(FirstInteger(rs[c].response.content.s)))
            /\ Le(Num(1, 10), rs[c].activitiesNorm)
            /\ Le(rs[c].activitiesNorm, IntNum(1))

\* A call whose request was answered with '15' resolved with a rating of 10.
C21_Witness ==
    \E c \in Callers :
        /\ rs[c].pc = "resolved"
        /\ rs[c].response.ok
        /\ rs[c].response.content = Str(<<"1", "5">>)
        /\ rs[c].activitiesScore10 = IntNum(10)
        /\ rs[c].activitiesNorm = IntNum(1)

\* The text has no character other than white space.
IsBlank(text) == \A i \in 1..Len(text) : text[i] \in WhiteSpace

\* The activities value is a list none of whose entries has a description, or it is
\* neither a list nor a string.
NothingToDescribe(activities) ==
    IF IsArray(activities)
    THEN \A i \in 1..Len(activities.items) :
             ~(Truthy(activities.items[i]) /\ Truthy(activities.items[i].description))
    ELSE ~IsString(activities)

\* The call of caller c has got past its first step without throwing.
Proceeded(c) == rs[c].pc \in {"awaiting", "resolved"}

\* C22: a call whose activities text is blank (a list without descriptions and a value
\* that is neither list nor string included), or that runs without an API key, sends no
\* request and is resolved with the neutral 5.5.
C22_NoRequestWithoutTextOrKey ==
    \A c \in Callers :
        Proceeded(c) =>
            LET activities == StudentFields(rs[c].student).activities
            IN  /\ NothingToDescribe(activities) => IsBlank(rs[c].activitiesText)
                /\ (IsBlank(rs[c].activitiesText) \/ GPT_API_KEY = <<>>)
                       => /\ rs[c].requests = 0
                          /\ rs[c].pc = "resolved"
                                 => /\ rs[c].response = NoResponse
                                    /\ rs[c].activitiesScore10 = Num(55, 10)

\* A call with described activities and no API key was resolved with 5.5.
C22_Witness ==
    \E c \in Callers :
        /\ rs[c].pc = "resolved"
        /\ GPT_API_KEY = <<>>
        /\ ~IsBlank(rs[c].activitiesText)
        /\ rs[c].requests = 0
        /\ rs[c].activitiesScore10 = Num(55, 10)

(***************************************************************************)
(* Claims about concurrent rateStudent calls, checked under SpecConcurrent.*)
(***************************************************************************)
\* What a call alone in the process gives for its student and for the answer to
\* its own request: "TypeError" when it throws, its score otherwise.
SoloResult(student, response) ==
    LET f == StudentFields(student)
        activitiesText == ActivitiesText(f.activities)
        activitiesScore10 ==
            IF NeedsRequest(activitiesText, GPT_API_KEY) THEN ScoreOfResponse(response)
            ELSE NeutralScore
    IN  IF ApFilterThrows(f.apCourses) THEN "TypeError"
        ELSE MathRound(Mul(StudentComposite(GpaNorm(f.gpa, f.weighted),
                                            StudentTestNorm(f.sat, f.act),
                                            ApNorm(f.apCourses),
                                            Div(activitiesScore10, IntNum(10))),
                           IntNum(100)))

EnrollmentPeak(e) ==
    Add(Num(8, 10),
        Mul(Num(2, 10), Sub(IntNum(1), Div(MathAbs(Sub(e, IntNum(15000))), IntNum(15000)))))

\* C15: the enrollment dimension is 0 for an absent or non-positive enrollment,
\* min(0.6, e/5000) below 5000, the peak curve from 5000 to 30000, which stays in
\* [0.8,1.0] and is 1.0 at 15000 only, and 0.7 above 30000.
C15_EnrollmentCurve ==
    rc.pc = "returned" =>
        LET e == NumericValue(CollegeFields(rc.college).enrollment)
        IN  IF ~IsNum(e) \/ Le(e, IntNum(0)) THEN rc.enrollmentNorm = IntNum(0)
            ELSE IF Lt(e, IntNum(5000))
            THEN rc.enrollmentNorm = MathMin(Num(6, 10), Div(e, IntNum(5000)))
            ELSE IF Le(e, IntNum(30000))
            THEN /\ rc.enrollmentNorm = EnrollmentPeak(e)
                 /\ Le(Num(8, 10), rc.enrollmentNorm)
                 /\ Le(rc.enrollmentNorm, IntNum(1))
                 /\ rc.enrollmentNorm = IntNum(1) <=> e = IntNum(15000)
            ELSE rc.enrollmentNorm = Num(7, 10)

\* Colleges at the boundaries were rated: 5000 is on the peak curve.
C15_Witness ==
    /\ rc.pc = "returned"
    /\ rc.college # Null
    /\ rc.college.enrollment = IntNum(5000)
    /\ rc.enrollmentNorm = Num(13, 15)

InDomainNorm(x, lo, hi) ==
    IF IsNum(NumericValue(x)) /\ ~Above(x, hi) /\ ~Below(x, lo)
    THEN Div(Sub(NumericValue(x), IntNum(lo)), IntNum(hi - lo))
    ELSE IntNum(0)

\* C20: the SAT midpoint contributes (sat-400)/1200 inside [400,1600] and the ACT
\* midpoint (act-1)/35 inside [1,36], each 0 outside, never the value of the bound,
\* and the test dimension is the larger of the two.
C20_CollegeTestDimension ==
    rc.pc = "returned" =>
        LET f == CollegeFields(rc.college)
        IN  /\ rc.satNorm = InDomainNorm(f.sat_50th_percentile, 400, 1600)
            /\ rc.actNorm = InDomainNorm(f.act_50th_percentile, 1, 36)
            /\ rc.testNorm = MathMax(rc.satNorm, rc.actNorm)
            /\ Above(f.sat_50th_percentile, 1600) => rc.satNorm = IntNum(0)
            /\ Above(f.act_50th_percentile, 36) => rc.actNorm = IntNum(0)

\* A college with an SAT midpoint of '1000' and an ACT midpoint of 40 was rated: the
\* ACT contributes 0 and the dimension is the SAT's 0.5.
C20_Witness ==
    /\ rc.pc = "returned"
    /\ rc.college # Null
    /\ rc.college.sat_50th_percentile = Str(<<"1", "0", "0", "0">>)
    /\ rc.college.act_50th_percentile = IntNum(40)
    /\ rc.actNorm = IntNum(0)
    /\ rc.testNorm = Num(1, 2)

====
